---- MODULE Spec2Model ----
(***************************************************************************)
(* Signal-derivation engine of savantlab.                                  *)
(*                                                                         *)
(*   Spec          src/analyze_left_right.py: main's pipeline, i.e. the    *)
(*                 scan of segment_strokes over an event stream, then the  *)
(*                 per-stroke reversal analysis and the rate summary.      *)
(*   SpecReversal  src/analyze_left_right.py: analyze_left_right_reversal  *)
(*                 on one stroke, its counting loop taken step by step.    *)
(*   SpecGaze      src/analysis/eye_tracking.py: process_video's frame     *)
(*                 loop followed by _add_derived_metrics.                  *)
(*   SpecFixation  the same loop on short videos with varied frames.       *)
(*   SpecMetrics   src/analysis/metrics.py: compute_all_metrics on a       *)
(*                 loaded session, then session_statistics and            *)
(*                 time_binned_statistics on its result.                   *)
(*   SpecBatch     src/analysis/process_all_sessions.py: main on a         *)
(*                 directory of session files, and compare_sessions.       *)
(*   SpecWatcher   src/analysis/watch_and_process.py: SessionWatcher       *)
(*                 polling a directory in which files come and go.         *)
(*   SpecHarmony   src/harmony_lab.py: the page's listeners interleaved    *)
(*                 with the capture loop of run_harmony_session.           *)
(*                                                                         *)
(* Positions are integer pixels (harmony_lab.py stores int(clientX)), so   *)
(* THRESH = 1.0 is the integer 1.                                          *)
(***************************************************************************)
EXTENDS Integers, Sequences, FiniteSets, TLC

VARIABLES
    \* ---- analyze_left_right.py: main / segment_strokes
    events,          \* the loaded event stream (load_events)
    idx,             \* position of `for ev in events` (1-based, next to handle)
    strokes,         \* segment_strokes: strokes
    current,         \* segment_strokes: current
    drawing,         \* segment_strokes: drawing
    pc,              \* "segment" | "analyze" | "done"
    sidx,            \* position of main's `for stroke in strokes`
    results,         \* main: results
    summary,         \* main: the printed summary, <<>> when main returned early
    \* ---- analyze_left_right.py: analyze_left_right_reversal on one stroke
    stroke,          \* the argument
    rpc,             \* "call" | "loop" | "returned"
    dxs,             \* local dxs
    dirs,            \* local dirs
    initial_dir,     \* local initial_dir
    prev_dir,        \* local prev_dir
    reversal_count,  \* local reversal_count
    ri,              \* position of `for d in dirs`
    ret,             \* the return value: <<>> is None, <<r>> is the dict r
    \* ---- eye_tracking.py: EyeTracker.process_video
    metrics_list,    \* process_video: metrics_list
    gpc,             \* "reading" | "done" | "raised"
    df,              \* the table returned by _add_derived_metrics
    \* ---- metrics.py: compute_all_metrics and the aggregations of its result
    session_df,      \* SessionData.df, the table of the loaded session
    mpc,             \* "call" | "velocity" | "acceleration" | "distance"
                     \* | "returned" | "summarised" | "binned"
                     \* | "raised" (compute_all_metrics raised)
                     \* | "cut_raised" (time_binned_statistics raised)
    metrics_df,      \* compute_all_metrics: df, then the caller's table
    quot,            \* the quotients passed to the latest pair of np.where
    stats,           \* the dict returned by session_statistics
    binned,          \* the table returned by time_binned_statistics
    \* ---- process_all_sessions.py: main; metrics.py: compare_sessions
    csv_files,       \* load_sessions_from_directory: csv_files
    bpc,             \* "loading" | "loaded" | "processing" | "done" | "aborted"
                     \* | "compared" | "compare_raised"
    fi,              \* position of `for csv_file in csv_files`
    sessions,        \* the loaded sessions
    load_errors,     \* the files whose loading error was printed
    si,              \* position of main's `for i, session in enumerate(...)`
    all_stats,       \* main: all_stats
    report,          \* <<rows>> of the summary report, <<>> when not written
    comparison,      \* <<rows>> returned by compare_sessions, <<>> if none
    \* ---- watch_and_process.py: SessionWatcher
    directory,       \* the session directory: file name -> contents
    wpc,             \* "constructing" | "sleeping" | "iterating" | "crashed"
    existing,        \* _load_existing_files: the names found at construction
    processed_files, \* self.processed_files
    current_files,   \* check_for_new_files: current_files
    new_files,       \* check_for_new_files: the new_files not yet iterated
    calls,           \* the calls of process_new_session so far, with their end
    \* ---- harmony_lab.py: the page and run_harmony_session
    window_open,     \* the browser window is there
    harmonyLabEvents, \* window._harmonyLabEvents
    harmonyLabDone,  \* window._harmonyLabDone
    clock,           \* the number of events the page has recorded
    recorded,        \* the events recorded before the done flag was set
    hpc,             \* "title" | "is_done" | "pop" | "append" | "returned" | "raised"
    done,            \* run_harmony_session: done
    raw_events,      \* run_harmony_session: raw_events
    session_events   \* run_harmony_session: events

mainVars == <<events, idx, strokes, current, drawing, pc, sidx, results, summary>>
revVars  == <<stroke, rpc, dxs, dirs, initial_dir, prev_dir, reversal_count, ri, ret>>
gazeVars == <<metrics_list, gpc, df>>
metricsVars == <<session_df, mpc, metrics_df, quot, stats, binned>>
batchVars == <<csv_files, bpc, fi, sessions, load_errors, si, all_stats, report,
               comparison>>
watcherVars == <<directory, wpc, existing, processed_files, current_files,
                 new_files, calls>>
harmonyVars == <<window_open, harmonyLabEvents, harmonyLabDone, clock, recorded, hpc,
                 done, raw_events, session_events>>
vars     == <<mainVars, revVars, gazeVars, metricsVars, batchVars, watcherVars, harmonyVars>>

\* ------------------------------------------------------------------ bounds
MaxEvents    == 5    \* longest event stream of Spec
MaxStrokeLen == 5    \* longest stroke of SpecReversal
MaxX         == 3    \* x positions of SpecReversal are 0..MaxX
MaxFrames    == 32   \* longest video of SpecGaze, in frames
MaxBlinkChanges == 2 \* most changes of is_blinking along a video of SpecGaze
MaxShortFrames  == 5 \* longest video of SpecFixation, in frames
MaxSamples      == 4 \* most rows of a session file of SpecMetrics
MaxFiles        == 3 \* most session files of a directory of SpecBatch
MaxNames        == 2 \* file names of the directory of SpecWatcher
MaxRecorded     == 3 \* most events the page records in SpecHarmony

\* ------------------------------------------------------------- helpers
SeqsUpTo(S, n) == UNION {[1..k -> S] : k \in 0..n}

RECURSIVE Concat(_)
Concat(ss) == IF ss = <<>> THEN <<>> ELSE Head(ss) \o Concat(Tail(ss))

Last(s) == s[Len(s)]

Abs(n) == IF n < 0 THEN -n ELSE n

\* ------------------------------------------- StrokeEvent and event streams
\* type is free text in the JSON; "wheel" stands for any type that is not
\* down/move/up.  t is the event's position in the stream, which makes every
\* event distinct.
EventTypes == {"down", "move", "up", "wheel"}
PipelineX  == {0, 2}

StrokeEvent(t, type, x) == [t |-> t, type |-> type, x |-> x]

\* the events of Spec's streams: a `down` or `move` at either position, an
\* `up` or an event of another type at position 0
EventKinds == ({"down", "move"} \X PipelineX) \cup ({"up", "wheel"} \X {0})

EventStreams ==
    {[i \in 1..Len(ks) |-> StrokeEvent(i, ks[i][1], ks[i][2])] :
        ks \in SeqsUpTo(EventKinds, MaxEvents)}

\* =========================================================================
\* analyze_left_right_reversal, as a function
\* =========================================================================
THRESH == 1

ComputeDxs(s) == [i \in 1..(Len(s) - 1) |-> s[i + 1].x - s[i].x]

ClassifyWrongBoundary(dx) ==
    IF dx >= THRESH THEN 1 ELSE IF dx <= -THRESH THEN -1 ELSE 0

Classify(dx) == IF dx > THRESH THEN 1 ELSE IF dx < -THRESH THEN -1 ELSE 0

ComputeDirs(ds) == [i \in 1..Len(ds) |-> Classify(ds[i])]

InitialDirLast(ds) ==
    IF \E i \in 1..Len(ds) : ds[i] # 0
    THEN ds[CHOOSE i \in 1..Len(ds) :
                ds[i] # 0 /\ \A j \in (i + 1)..Len(ds) : ds[j] = 0]
    ELSE 0

\* next((d for d in dirs if d != 0), 0)
InitialDir(ds) ==
    IF \E i \in 1..Len(ds) : ds[i] # 0
    THEN ds[CHOOSE i \in 1..Len(ds) :
                ds[i] # 0 /\ \A j \in 1..(i - 1) : ds[j] = 0]
    ELSE 0

LoopBodyNoUpdate(st, d) ==
    IF d = 0 THEN st
    ELSE IF d # st.prev_dir
         THEN [prev_dir |-> st.prev_dir, reversal_count |-> st.reversal_count + 1]
         ELSE st

LoopBodyCountsEvery(st, d) ==
    IF d = 0 THEN st
    ELSE [prev_dir |-> d, reversal_count |-> st.reversal_count + 1]

\* one iteration of `for d in dirs`, on the pair (prev_dir, reversal_count)
LoopBody(st, d) ==
    IF d = 0 THEN st
    ELSE IF d # st.prev_dir
         THEN [prev_dir |-> d, reversal_count |-> st.reversal_count + 1]
         ELSE st

RECURSIVE RunLoop(_, _, _)
RunLoop(ds, i, st) ==
    IF i > Len(ds) THEN st ELSE RunLoop(ds, i + 1, LoopBody(st, ds[i]))

NeutralResult == [has_reversal |-> FALSE, initial_dir |-> 0, reversal_count |-> 0]

Result(ini, cnt) ==
    [has_reversal |-> cnt > 0, initial_dir |-> ini, reversal_count |-> cnt]

analyze_left_right_reversal(s) ==
    IF Len(s) < 2 THEN <<>>
    ELSE LET ds  == ComputeDirs(ComputeDxs(s))
             ini == InitialDir(ds)
         IN IF ini = 0 THEN <<NeutralResult>>
            ELSE <<Result(ini, RunLoop(ds, 1,
                     [prev_dir |-> ini, reversal_count |-> 0]).reversal_count)>>

\* =========================================================================
\* Spec: main of analyze_left_right.py
\* =========================================================================
RevIdle ==
    /\ stroke = <<>> /\ rpc = "idle" /\ dxs = <<>> /\ dirs = <<>>
    /\ initial_dir = 0 /\ prev_dir = 0 /\ reversal_count = 0 /\ ri = 1
    /\ ret = <<>>

GazeIdle == metrics_list = <<>> /\ gpc = "idle" /\ df = <<>>

MetricsIdle ==
    /\ session_df = <<>> /\ mpc = "idle" /\ metrics_df = <<>> /\ quot = <<>>
    /\ stats = <<>> /\ binned = <<>>

BatchIdle ==
    /\ csv_files = <<>> /\ bpc = "idle" /\ fi = 1 /\ sessions = <<>>
    /\ load_errors = <<>> /\ si = 1 /\ all_stats = <<>> /\ report = <<>>
    /\ comparison = <<>>

WatcherIdle ==
    /\ directory = <<>> /\ wpc = "idle" /\ existing = {} /\ processed_files = {}
    /\ current_files = {} /\ new_files = {} /\ calls = <<>>

HarmonyIdle ==
    /\ window_open = FALSE /\ harmonyLabEvents = <<>> /\ harmonyLabDone = FALSE
    /\ clock = 0 /\ recorded = <<>> /\ hpc = "idle" /\ done = FALSE
    /\ raw_events = <<>> /\ session_events = <<>>

MainIdle ==
    /\ events = <<>> /\ idx = 1 /\ strokes = <<>> /\ current = <<>>
    /\ drawing = FALSE /\ pc = "idle" /\ sidx = 1 /\ results = <<>>
    /\ summary = <<>>

Init ==
    /\ events \in EventStreams
    /\ idx = 1
    /\ strokes = <<>>
    /\ current = <<>>
    /\ drawing = FALSE
    /\ pc = "segment"
    /\ sidx = 1
    /\ results = <<>>
    /\ summary = <<>>
    /\ RevIdle
    /\ GazeIdle
    /\ MetricsIdle
    /\ BatchIdle
    /\ WatcherIdle
    /\ HarmonyIdle

\* the three variants below change one branch of the loop body each
SegmentBodyDropsOnDown(ev, st) ==
    IF ev.type = "down"
    THEN [strokes |-> st.strokes, current |-> <<ev>>, drawing |-> TRUE]
    ELSE IF ev.type = "move" /\ st.drawing
    THEN [st EXCEPT !.current = Append(st.current, ev)]
    ELSE IF ev.type = "up" /\ st.drawing
    THEN [strokes |-> Append(st.strokes, Append(st.current, ev)),
          current |-> <<>>, drawing |-> FALSE]
    ELSE st

SegmentBodyJoinsOnDown(ev, st) ==
    IF ev.type = "down"
    THEN [strokes |-> st.strokes, current |-> Append(st.current, ev),
          drawing |-> TRUE]
    ELSE IF ev.type = "move" /\ st.drawing
    THEN [st EXCEPT !.current = Append(st.current, ev)]
    ELSE IF ev.type = "up" /\ st.drawing
    THEN [strokes |-> Append(st.strokes, Append(st.current, ev)),
          current |-> <<>>, drawing |-> FALSE]
    ELSE st

SegmentBodyKeepsStray(ev, st) ==
    IF ev.type = "down"
    THEN [strokes |-> IF st.current # <<>>
                      THEN Append(st.strokes, st.current) ELSE st.strokes,
          current |-> <<ev>>, drawing |-> TRUE]
    ELSE IF ev.type = "move"
    THEN [st EXCEPT !.current = Append(st.current, ev)]
    ELSE IF ev.type = "up" /\ st.drawing
    THEN [strokes |-> Append(st.strokes, Append(st.current, ev)),
          current |-> <<>>, drawing |-> FALSE]
    ELSE st

SegmentBodyUpKeepsDrawing(ev, st) ==
    IF ev.type = "down"
    THEN [strokes |-> IF st.current # <<>>
                      THEN Append(st.strokes, st.current) ELSE st.strokes,
          current |-> <<ev>>, drawing |-> TRUE]
    ELSE IF ev.type = "move" /\ st.drawing /\ st.current # <<>>
    THEN [st EXCEPT !.current = Append(st.current, ev)]
    ELSE IF ev.type = "up" /\ st.drawing /\ st.current # <<>>
    THEN [strokes |-> Append(st.strokes, Append(st.current, ev)),
          current |-> <<>>, drawing |-> TRUE]
    ELSE st

SegmentBodyUpWithoutDown(ev, st) ==
    IF ev.type = "down"
    THEN [strokes |-> IF st.current # <<>>
                      THEN Append(st.strokes, st.current) ELSE st.strokes,
          current |-> <<ev>>, drawing |-> TRUE]
    ELSE IF ev.type = "move" /\ st.drawing
    THEN [st EXCEPT !.current = Append(st.current, ev)]
    ELSE IF ev.type = "up"
    THEN [strokes |-> Append(st.strokes, Append(st.current, ev)),
          current |-> <<>>, drawing |-> FALSE]
    ELSE st

\* the body of `for ev in events`, on the triple (strokes, current, drawing)
SegmentBody(ev, st) ==
    IF ev.type = "down"
    THEN [strokes |-> IF st.current # <<>>
                      THEN Append(st.strokes, st.current) ELSE st.strokes,
          current |-> <<ev>>, drawing |-> TRUE]
    ELSE IF ev.type = "move" /\ st.drawing
    THEN [st EXCEPT !.current = Append(st.current, ev)]
    ELSE IF ev.type = "up" /\ st.drawing
    THEN [strokes |-> Append(st.strokes, Append(st.current, ev)),
          current |-> <<>>, drawing |-> FALSE]
    ELSE st

SegmentTailDropped(ss, cur) == ss

\* `if current: strokes.append(current)` after the loop
SegmentTail(ss, cur) == IF cur # <<>> THEN Append(ss, cur) ELSE ss

\* one iteration of segment_strokes' loop
SegmentStep ==
    /\ pc = "segment"
    /\ idx <= Len(events)
    /\ LET st == SegmentBody(events[idx],
                   [strokes |-> strokes, current |-> current, drawing |-> drawing])
       IN /\ strokes' = st.strokes
          /\ current' = st.current
          /\ drawing' = st.drawing
    /\ idx' = idx + 1
    /\ UNCHANGED <<events, pc, sidx, results, summary, revVars, gazeVars, metricsVars, batchVars, watcherVars, harmonyVars>>

\* the end of the loop: the tail flush and the return to main
SegmentReturn ==
    /\ pc = "segment"
    /\ idx > Len(events)
    /\ strokes' = SegmentTail(strokes, current)
    /\ pc' = "analyze"
    /\ UNCHANGED <<events, idx, current, drawing, sidx, results, summary,
                   revVars, gazeVars, metricsVars, batchVars, watcherVars, harmonyVars>>

MainCollectKeepsNone(rs, info) == Append(rs, IF info = <<>> THEN NeutralResult ELSE info[1])

\* `if info is not None: results.append(info)`
MainCollect(rs, info) == IF info # <<>> THEN Append(rs, info[1]) ELSE rs

\* one iteration of main's `for stroke in strokes`
MainAnalyze ==
    /\ pc = "analyze"
    /\ sidx <= Len(strokes)
    /\ results' = MainCollect(results, analyze_left_right_reversal(strokes[sidx]))
    /\ sidx' = sidx + 1
    /\ UNCHANGED <<events, idx, strokes, current, drawing, pc, summary,
                   revVars, gazeVars, metricsVars, batchVars, watcherVars, harmonyVars>>

RECURSIVE SumReversals(_)
SumReversals(rs) ==
    IF rs = <<>> THEN 0 ELSE Head(rs).reversal_count + SumReversals(Tail(rs))

\* the figures main prints; ratios are kept as numerator and denominator
Summarize(rs) ==
    IF rs = <<>> THEN <<>>
    ELSE LET from_right == {i \in 1..Len(rs) : rs[i].initial_dir = 1}
             from_left  == {i \in 1..Len(rs) : rs[i].initial_dir = -1}
         IN <<[total         |-> Len(rs),
               with_reversal |-> Cardinality({i \in 1..Len(rs) : rs[i].has_reversal}),
               from_right    |-> Cardinality(from_right),
               fr_with_rev   |-> Cardinality({i \in from_right : rs[i].has_reversal}),
               from_left     |-> Cardinality(from_left),
               fl_with_rev   |-> Cardinality({i \in from_left : rs[i].has_reversal}),
               reversal_sum  |-> SumReversals(rs)]>>

\* main after the loop: "No analyzable strokes." or the summary
MainSummary ==
    /\ pc = "analyze"
    /\ sidx > Len(strokes)
    /\ summary' = Summarize(results)
    /\ pc' = "done"
    /\ UNCHANGED <<events, idx, strokes, current, drawing, sidx, results,
                   revVars, gazeVars, metricsVars, batchVars, watcherVars, harmonyVars>>

Next == SegmentStep \/ SegmentReturn \/ MainAnalyze \/ MainSummary

Spec == Init /\ [][Next]_vars

\* =========================================================================
\* SpecReversal: analyze_left_right_reversal on one stroke, step by step
\* =========================================================================
MkStroke(xs) ==
    [i \in 1..Len(xs) |-> StrokeEvent(i, IF i = 1 THEN "down" ELSE "move", xs[i])]

StrokeInputs == {MkStroke(xs) : xs \in SeqsUpTo(0..MaxX, MaxStrokeLen)}

InitReversal ==
    /\ stroke \in StrokeInputs
    /\ rpc = "call"
    /\ dxs = <<>> /\ dirs = <<>>
    /\ initial_dir = 0 /\ prev_dir = 0 /\ reversal_count = 0 /\ ri = 1
    /\ ret = <<>>
    /\ MainIdle
    /\ GazeIdle
    /\ MetricsIdle
    /\ BatchIdle
    /\ WatcherIdle
    /\ HarmonyIdle

\* entry up to the counting loop: the length test, dxs, dirs, initial_dir
\* and the early return of an all-neutral stroke
AnalyzeCall ==
    /\ rpc = "call"
    /\ IF Len(stroke) < 2
       THEN /\ ret' = <<>>
            /\ rpc' = "returned"
            /\ UNCHANGED <<dxs, dirs, initial_dir, prev_dir, reversal_count, ri>>
       ELSE /\ dxs' = ComputeDxs(stroke)
            /\ dirs' = ComputeDirs(dxs')
            /\ initial_dir' = InitialDir(dirs')
            /\ IF initial_dir' = 0
               THEN /\ ret' = <<NeutralResult>>
                    /\ rpc' = "returned"
                    /\ UNCHANGED <<prev_dir, reversal_count, ri>>
               ELSE /\ reversal_count' = 0
                    /\ prev_dir' = initial_dir'
                    /\ ri' = 1
                    /\ rpc' = "loop"
                    /\ UNCHANGED ret
    /\ UNCHANGED <<stroke, mainVars, gazeVars, metricsVars, batchVars, watcherVars, harmonyVars>>

\* one iteration of `for d in dirs`
AnalyzeLoop ==
    /\ rpc = "loop"
    /\ ri <= Len(dirs)
    /\ LET st == LoopBody([prev_dir |-> prev_dir, reversal_count |-> reversal_count],
                          dirs[ri])
       IN /\ prev_dir' = st.prev_dir
          /\ reversal_count' = st.reversal_count
    /\ ri' = ri + 1
    /\ UNCHANGED <<stroke, rpc, dxs, dirs, initial_dir, ret, mainVars, gazeVars, metricsVars, batchVars, watcherVars, harmonyVars>>

\* the final return
AnalyzeReturn ==
    /\ rpc = "loop"
    /\ ri > Len(dirs)
    /\ ret' = <<Result(initial_dir, reversal_count)>>
    /\ rpc' = "returned"
    /\ UNCHANGED <<stroke, dxs, dirs, initial_dir, prev_dir, reversal_count, ri,
                   mainVars, gazeVars, metricsVars, batchVars, watcherVars, harmonyVars>>

NextReversal == AnalyzeCall \/ AnalyzeLoop \/ AnalyzeReturn

SpecReversal == InitReversal /\ [][NextReversal]_vars

\* =========================================================================
\* SpecGaze: EyeTracker.process_video and _add_derived_metrics
\* =========================================================================
\* Eye openness is in hundredths (0..100 for 0.0..1.0) and gaze coordinates in
\* thousandths, so the blink test `openness < 0.2` is `openness < 20`.
\* A column of the table is a sequence, row i of the table (frame i - 1) at
\* position i.  NaN is <<>>; a present value v of a column that can hold NaN
\* is <<v>>.
BlinkOpenness == 20
window_size   == 30
min_periods   == 1
NaN           == <<>>

\* what the landmark detector reports for one frame: no face, or the eye
\* openness of each eye and the averaged pupil position
FaceSeen(l, r, gx, gy) ==
    [face |-> TRUE, left_eye_openness |-> l, right_eye_openness |-> r,
     gaze_x |-> gx, gaze_y |-> gy]

\* the detections of SpecGaze: both eyes open, or both shut, gaze at rest
GazeDetections == {FaceSeen(100, 100, 500, 500), FaceSeen(0, 0, 500, 500)}

\* _extract_metrics: the EyeMetrics of a frame with a face
ExtractMetrics(det, frame_number) ==
    [frame_number       |-> frame_number,
     left_eye_openness  |-> det.left_eye_openness,
     right_eye_openness |-> det.right_eye_openness,
     gaze_x             |-> <<det.gaze_x>>,
     gaze_y             |-> <<det.gaze_y>>,
     is_blinking        |-> (det.left_eye_openness < BlinkOpenness
                             \/ det.right_eye_openness < BlinkOpenness)]

\* the EyeMetrics process_video appends when no face is detected: openness
\* 0.0, gaze None and is_blinking left at its default
NullMetrics(frame_number) ==
    [frame_number       |-> frame_number,
     left_eye_openness  |-> 0,
     right_eye_openness |-> 0,
     gaze_x             |-> NaN,
     gaze_y             |-> NaN,
     is_blinking        |-> FALSE]

FrameMetrics(det, frame_number) ==
    IF det.face THEN ExtractMetrics(det, frame_number)
    ELSE NullMetrics(frame_number)

\* number of frames whose is_blinking differs from the previous frame's
BlinkChanges(ms) ==
    Cardinality({i \in 2..Len(ms) : ms[i].is_blinking # ms[i - 1].is_blinking})

Column(ms, f) == [i \in 1..Len(ms) |-> ms[i][f]]

\* Series.astype(int) of a boolean column
AsInt(col) == [i \in 1..Len(col) |-> IF col[i] THEN 1 ELSE 0]

\* Series.diff(): NaN in the first row
Diff(col) == [i \in 1..Len(col) |-> IF i = 1 THEN NaN ELSE <<col[i] - col[i - 1]>>]

\* Series.eq(1).astype(int): NaN compares unequal
EqOne(col) == [i \in 1..Len(col) |-> IF col[i] = <<1>> THEN 1 ELSE 0]

BlinkEventAnyChange(is_blinking) ==
    [i \in 1..Len(is_blinking) |->
        IF i > 1 /\ is_blinking[i] # is_blinking[i - 1] THEN 1 ELSE 0]

\* df['is_blinking'].astype(int).diff().eq(1).astype(int)
BlinkEvent(is_blinking) == EqOne(Diff(AsInt(is_blinking)))

\* Series.cumsum(): one pass keeping the running total
RECURSIVE CumsumFrom(_, _, _, _)
CumsumFrom(col, i, total, out) ==
    IF i > Len(col) THEN out
    ELSE CumsumFrom(col, i + 1, total + col[i], Append(out, total + col[i]))

Cumsum(col) == CumsumFrom(col, 1, 0, <<>>)

\* Series.rolling(window=w, min_periods=mp).sum() of a column without NaN:
\* one pass that adds the row entering the window and removes the row
\* leaving it; a row's value is NaN while the window holds fewer than mp rows
RECURSIVE RollingSumFrom(_, _, _, _, _, _)
RollingSumFrom(col, w, mp, i, total, out) ==
    IF i > Len(col) THEN out
    ELSE LET added == total + col[i]
             kept  == IF i > w THEN added - col[i - w] ELSE added
             nobs  == IF i > w THEN w ELSE i
         IN RollingSumFrom(col, w, mp, i + 1, kept,
                           Append(out, IF nobs >= mp THEN <<kept>> ELSE NaN))

RollingSum(col, w, mp) == RollingSumFrom(col, w, mp, 1, 0, <<>>)

BlinkRateOffByOne(blink_event) == RollingSum(blink_event, window_size + 1, min_periods)

\* df['blink_event'].rolling(window=window_size, min_periods=1).sum()
BlinkRate(blink_event) == RollingSum(blink_event, window_size, min_periods)

\* the thresholds of _add_derived_metrics, 0.01 and 0.002, in thousandths
saccade_threshold  == 10
fixation_threshold == 2

\* df[col].diff().abs() of a gaze column: NaN in the first row and wherever
\* the row or the row before it holds NaN
DiffAbs(col) ==
    [i \in 1..Len(col) |->
        IF i = 1 \/ col[i] = NaN \/ col[i - 1] = NaN THEN NaN
        ELSE <<Abs(col[i][1] - col[i - 1][1])>>]

\* gaze_velocity_x**2 + gaze_velocity_y**2, the square of df['gaze_velocity']:
\* the velocity is kept by its square, in thousandths squared, so that it
\* stays an integer; NaN where either component is NaN
GazeVelocitySq(vx, vy) ==
    [i \in 1..Len(vx) |->
        IF vx[i] = NaN \/ vy[i] = NaN THEN NaN
        ELSE <<vx[i][1] * vx[i][1] + vy[i][1] * vy[i][1]>>]

IsSaccadeInclusive(vsq) ==
    [i \in 1..Len(vsq) |->
        IF vsq[i] # NaN /\ vsq[i][1] >= saccade_threshold * saccade_threshold
        THEN 1 ELSE 0]

IsSaccadeAnyMotion(vsq) ==
    [i \in 1..Len(vsq) |-> IF vsq[i] # NaN /\ vsq[i][1] > 0 THEN 1 ELSE 0]

\* (df['gaze_velocity'] > saccade_threshold).astype(int): for velocities,
\* which are not negative, v > s is v*v > s*s; NaN compares False
IsSaccade(vsq) ==
    [i \in 1..Len(vsq) |->
        IF vsq[i] # NaN /\ vsq[i][1] > saccade_threshold * saccade_threshold
        THEN 1 ELSE 0]

IsFixationUndefinedAsStill(vsq) ==
    [i \in 1..Len(vsq) |->
        IF vsq[i] = NaN \/ vsq[i][1] < fixation_threshold * fixation_threshold
        THEN 1 ELSE 0]

\* (df['gaze_velocity'] < fixation_threshold).astype(int)
IsFixation(vsq) ==
    [i \in 1..Len(vsq) |->
        IF vsq[i] # NaN /\ vsq[i][1] < fixation_threshold * fixation_threshold
        THEN 1 ELSE 0]

\* Series != 0 as 0/1: NaN differs from 0
NeZero(col) == [i \in 1..Len(col) |-> IF col[i] # <<0>> THEN 1 ELSE 0]

FixationGroupSingle(is_fixation) == [i \in 1..Len(is_fixation) |-> 1]

\* (df['is_fixation'].diff() != 0).cumsum()
FixationGroup(is_fixation) == Cumsum(NeZero(Diff(is_fixation)))

\* df[df['is_fixation'] == 1].groupby('fixation_group').size(): for every
\* group that has a fixation row, the number of its fixation rows
FixationDurations(is_fixation, fixation_group) ==
    LET rows == {i \in 1..Len(is_fixation) : is_fixation[i] = 1}
    IN [g \in {fixation_group[i] : i \in rows} |->
           Cardinality({i \in rows : fixation_group[i] = g})]

\* df['fixation_group'].map(fixation_durations).fillna(0)
FixationDuration(is_fixation, fixation_group) ==
    LET fixation_durations == FixationDurations(is_fixation, fixation_group)
    IN [i \in 1..Len(fixation_group) |->
           IF fixation_group[i] \in DOMAIN fixation_durations
           THEN fixation_durations[fixation_group[i]]
           ELSE 0]

\* _add_derived_metrics: the blink columns and the gaze columns
AddDerivedMetrics(ms) ==
    LET is_blinking    == Column(ms, "is_blinking")
        blink_event    == BlinkEvent(is_blinking)
        gaze_velocity  == GazeVelocitySq(DiffAbs(Column(ms, "gaze_x")),
                                         DiffAbs(Column(ms, "gaze_y")))
        is_fixation    == IsFixation(gaze_velocity)
        fixation_group == FixationGroup(is_fixation)
    IN [is_blinking       |-> is_blinking,
        blink_event       |-> blink_event,
        blink_count       |-> Cumsum(blink_event),
        blink_rate        |-> BlinkRate(blink_event),
        gaze_velocity_sq  |-> gaze_velocity,
        is_saccade        |-> IsSaccade(gaze_velocity),
        is_fixation       |-> is_fixation,
        fixation_group    |-> fixation_group,
        fixation_duration |-> FixationDuration(is_fixation, fixation_group)]

InitGaze ==
    /\ metrics_list = <<>>
    /\ gpc = "reading"
    /\ df = <<>>
    /\ MainIdle
    /\ RevIdle
    /\ MetricsIdle
    /\ BatchIdle
    /\ WatcherIdle
    /\ HarmonyIdle

\* one iteration of process_video's `while cap.isOpened()` that read a frame
ProcessFrame ==
    /\ gpc = "reading"
    /\ Len(metrics_list) < MaxFrames
    /\ \E det \in GazeDetections :
          /\ metrics_list' = Append(metrics_list, FrameMetrics(det, Len(metrics_list)))
          /\ BlinkChanges(metrics_list') <= MaxBlinkChanges
    /\ UNCHANGED <<gpc, df, mainVars, revVars, metricsVars, batchVars, watcherVars, harmonyVars>>

\* the end of the video: the DataFrame is built and _add_derived_metrics
\* runs on it.  With no frame at all the table has no column and
\* df['is_blinking'] raises KeyError.  When no frame has a face every gaze_x
\* is None, the column holds objects instead of floats, and the gaze
\* velocity lines raise TypeError.
EndOfVideo ==
    /\ gpc = "reading"
    /\ IF \A i \in 1..Len(metrics_list) : metrics_list[i].gaze_x = NaN
       THEN gpc' = "raised" /\ UNCHANGED df
       ELSE gpc' = "done" /\ df' = AddDerivedMetrics(metrics_list)
    /\ UNCHANGED <<metrics_list, mainVars, revVars, metricsVars, batchVars, watcherVars, harmonyVars>>

NextGaze == ProcessFrame \/ EndOfVideo

SpecGaze == InitGaze /\ [][NextGaze]_vars

\* ---- SpecFixation: the same loop on short videos whose frames differ in
\* ---- eye openness and gaze position, and may show no face
NoFace ==
    [face |-> FALSE, left_eye_openness |-> 0, right_eye_openness |-> 0,
     gaze_x |-> 0, gaze_y |-> 0]

\* From one frame to the next the gaze moves by 0, sqrt 2 (below the fixation
\* threshold), 2 (on it), 8 or sqrt 82 (between the thresholds), 10 (on the
\* saccade threshold) or 12 (above it); eye openness is well above 0.2, on
\* 0.2, or below it for the left or for the right eye.
FixationDetections ==
    {FaceSeen(100, 100, 500, 500),
     FaceSeen(20, 20, 501, 501),
     FaceSeen(19, 100, 502, 500),
     FaceSeen(100, 19, 510, 500),
     FaceSeen(100, 100, 512, 500),
     NoFace}

ProcessShortFrame ==
    /\ gpc = "reading"
    /\ Len(metrics_list) < MaxShortFrames
    /\ \E det \in FixationDetections :
          metrics_list' = Append(metrics_list, FrameMetrics(det, Len(metrics_list)))
    /\ UNCHANGED <<gpc, df, mainVars, revVars, metricsVars, batchVars, watcherVars, harmonyVars>>

NextFixation == ProcessShortFrame \/ EndOfVideo

SpecFixation == InitGaze /\ [][NextFixation]_vars

\* =========================================================================
\* SpecMetrics: metrics.py on a session loaded by data_loader.py
\* =========================================================================
\* A float is a record: a rational v/d in lowest terms with d > 0 (k = "num"),
\* NaN or NaT (k = "nan"), plus or minus infinity (k = "inf", v = the sign),
\* the square root of the rational v/d when that root is irrational
\* (k = "sqrt"), or the angle atan2(v, d) in degrees when it is not a multiple
\* of 90 (k = "atan2").
\* A table is [cols, rows]: the set of its column names and the sequence of
\* its rows; a row maps every column name to its value and "index" to the
\* row's label in the DataFrame index.
RECURSIVE GCD(_, _)
GCD(a, b) == IF b = 0 THEN a ELSE GCD(b, a % b)

Sign(n) == IF n > 0 THEN 1 ELSE IF n < 0 THEN -1 ELSE 0

Rat(n, d) ==
    LET g == GCD(Abs(n), Abs(d))
    IN [k |-> "num", v |-> Sign(n) * Sign(d) * (Abs(n) \div g), d |-> Abs(d) \div g]

F(n)     == [k |-> "num", v |-> n, d |-> 1]
FNaN     == [k |-> "nan", v |-> 0, d |-> 1]
FInf(sg) == [k |-> "inf", v |-> sg, d |-> 1]

IsNum(a) == a.k = "num"

\* a - b and a + b of two floats that are rational or NaN
VSub(a, b) ==
    IF IsNum(a) /\ IsNum(b) THEN Rat(a.v * b.d - b.v * a.d, a.d * b.d) ELSE FNaN

VAdd(a, b) ==
    IF IsNum(a) /\ IsNum(b) THEN Rat(a.v * b.d + b.v * a.d, a.d * b.d) ELSE FNaN

\* a / b as pandas divides two float columns: x/0 is an infinity, 0/0 and
\* anything with NaN is NaN, and nothing is raised
VDiv(a, b) ==
    IF ~(IsNum(a) /\ IsNum(b)) THEN FNaN
    ELSE IF b.v = 0 THEN (IF a.v = 0 THEN FNaN ELSE FInf(Sign(a.v)))
    ELSE Rat(a.v * b.d * Sign(b.v), a.d * Abs(b.v))

IsSquare(n) == \E r \in 0..n : r * r = n
ISqrt(n)    == CHOOSE r \in 0..n : r * r = n

\* np.sqrt(a**2 + b**2)
VHypot(a, b) ==
    IF ~(IsNum(a) /\ IsNum(b)) THEN FNaN
    ELSE LET s == Rat(a.v * a.v * b.d * b.d + b.v * b.v * a.d * a.d,
                      a.d * a.d * b.d * b.d)
         IN IF IsSquare(s.v) /\ IsSquare(s.d) THEN Rat(ISqrt(s.v), ISqrt(s.d))
            ELSE [k |-> "sqrt", v |-> s.v, d |-> s.d]

\* np.degrees(np.arctan2(y, x))
VAtan2Deg(y, x) ==
    IF ~(IsNum(y) /\ IsNum(x)) THEN FNaN
    ELSE LET yn == y.v * x.d
             xn == x.v * y.d
             g  == GCD(Abs(yn), Abs(xn))
         IN IF yn = 0 THEN (IF xn < 0 THEN F(180) ELSE F(0))
            ELSE IF xn = 0 THEN F(90 * Sign(yn))
            ELSE [k |-> "atan2", v |-> Sign(yn) * (Abs(yn) \div g),
                  d |-> Sign(xn) * (Abs(xn) \div g)]

\* a > 0 and a < b of floats: every comparison with NaN is False
VGt0(a)   == IsNum(a) /\ a.v > 0
VLt(a, b) == IsNum(a) /\ IsNum(b) /\ a.v * b.d < b.v * a.d
VLe(a, b) == IsNum(a) /\ IsNum(b) /\ a.v * b.d <= b.v * a.d

\* ---- columns
TColumn(t, c) == [i \in 1..Len(t.rows) |-> t.rows[i][c]]

\* Series.diff()
VDiff(col) ==
    [i \in 1..Len(col) |-> IF i = 1 THEN FNaN ELSE VSub(col[i], col[i - 1])]

\* a / b row by row
VDivCol(a, b) == [i \in 1..Len(a) |-> VDiv(a[i], b[i])]

WhereAlwaysQuotient(dt, q) == q

\* np.where(dt > 0, q, 0): the quotient column q is an argument, computed
\* for every row before np.where selects from it
Where(dt, q) == [i \in 1..Len(dt) |-> IF VGt0(dt[i]) THEN q[i] ELSE F(0)]

VHypotCol(a, b) == [i \in 1..Len(a) |-> VHypot(a[i], b[i])]

VAtan2DegCol(y, x) == [i \in 1..Len(y) |-> VAtan2Deg(y[i], x[i])]

\* Series.fillna(0)
FillNa0(col) == [i \in 1..Len(col) |-> IF col[i].k = "nan" THEN F(0) ELSE col[i]]

\* Series.cumsum() of a column without NaN
RECURSIVE VCumsumFrom(_, _, _, _)
VCumsumFrom(col, i, total, out) ==
    IF i > Len(col) THEN out
    ELSE VCumsumFrom(col, i + 1, VAdd(total, col[i]),
                     Append(out, VAdd(total, col[i])))

VCumsumRestarting(col) == col

VCumsum(col) == VCumsumFrom(col, 1, F(0), <<>>)

\* df[c] = values for every column c of the record new: the columns are added
\* to the table, or replaced where it has them
WithColumns(t, new) ==
    [cols |-> t.cols \cup DOMAIN new,
     rows |-> [i \in 1..Len(t.rows) |->
                  [c \in t.cols \cup DOMAIN new \cup {"index"} |->
                      IF c \in DOMAIN new THEN new[c][i] ELSE t.rows[i][c]]]]

\* ---- data_loader.py
pointer_types ==
    {"mouseMoved", "leftMouseDragged", "rightMouseDragged", "otherMouseDragged"}

CsvColumns == {"event_type", "timestamp_local", "x", "y"}

\* SessionData._load_csv of a file that has the columns cols, timestamp_local
\* among them: time_delta_sec, the seconds since the first timestamp that
\* parsed, is added when the file has such a timestamp
LoadCsv(cols, raw) ==
    LET t == [cols |-> cols,
              rows |-> [i \in 1..Len(raw) |->
                           [c \in cols \cup {"index"} |->
                               IF c = "index" THEN i - 1 ELSE raw[i][c]]]]
        parsed == {i \in 1..Len(raw) : IsNum(raw[i].timestamp_local)}
    IN IF parsed = {} THEN t
       ELSE LET first_time ==
                    raw[CHOOSE i \in parsed : \A j \in parsed : i <= j].timestamp_local
            IN WithColumns(t, [time_delta_sec |->
                   [i \in 1..Len(raw) |-> VSub(raw[i].timestamp_local, first_time)]])

\* SessionData._get_start_time of a loaded table whose timestamps did not
\* all fail to parse: the first timestamp that parsed, None (here NaT) for a
\* table without rows
GetStartTime(t) ==
    LET parsed == {i \in 1..Len(t.rows) : IsNum(t.rows[i].timestamp_local)}
    IN IF parsed = {} THEN FNaN
       ELSE t.rows[CHOOSE i \in parsed : \A j \in parsed : i <= j].timestamp_local

\* a session file: its name without the extension, its header and its rows
CsvFile(stem, cols, raw) == [stem |-> stem, cols |-> cols, raw |-> raw]

\* SessionData(csv_path): <<>> when the constructor raises, <<s>> for the
\* object s.  _load_csv raises KeyError on a file without a timestamp_local
\* column; _get_start_time raises IndexError on a file that has rows but no
\* timestamp that parses (dropna() leaves nothing for iloc[0]).
SessionData(file) ==
    IF "timestamp_local" \notin file.cols THEN <<>>
    ELSE LET t == LoadCsv(file.cols, file.raw)
         IN IF t.rows # <<>> /\ "time_delta_sec" \notin t.cols THEN <<>>
            ELSE <<[session_id |-> file.stem, df |-> t, start_time |-> GetStartTime(t)]>>

\* df[mask].copy(): a new table of the rows that satisfy the mask
SelectRows(t, keep) ==
    [cols |-> t.cols,
     rows |-> SelectSeq(t.rows, LAMBDA r : r.index \in keep)]

\* SessionData.get_pointer_events
GetPointerEvents(t) ==
    SelectRows(t, {t.rows[i].index : i \in
                      {j \in 1..Len(t.rows) : t.rows[j].event_type \in pointer_types}})

\* df.dropna(subset=subset) of a table that has the columns of subset
DropNa(t, subset) ==
    SelectRows(t, {t.rows[i].index : i \in
                      {j \in 1..Len(t.rows) :
                          \A c \in subset : t.rows[j][c].k # "nan"}})

\* ---- metrics.py
\* the quotients dx / dt and dy / dt of compute_velocity
VelocityQuotients(t) ==
    LET dt == VDiff(TColumn(t, "time_delta_sec"))
    IN [x |-> VDivCol(VDiff(TColumn(t, "x")), dt),
        y |-> VDivCol(VDiff(TColumn(t, "y")), dt)]

compute_velocity(t) ==
    LET dt == VDiff(TColumn(t, "time_delta_sec"))
        q  == VelocityQuotients(t)
        velocity_x == Where(dt, q.x)
        velocity_y == Where(dt, q.y)
    IN WithColumns(t, [velocity_x |-> velocity_x,
                       velocity_y |-> velocity_y,
                       speed      |-> VHypotCol(velocity_x, velocity_y),
                       direction  |-> VAtan2DegCol(velocity_y, velocity_x)])

\* the quotients dv_x / dt and dv_y / dt of compute_acceleration
AccelerationQuotients(t) ==
    LET dt == VDiff(TColumn(t, "time_delta_sec"))
    IN [x |-> VDivCol(VDiff(TColumn(t, "velocity_x")), dt),
        y |-> VDivCol(VDiff(TColumn(t, "velocity_y")), dt)]

compute_acceleration(t) ==
    LET dt == VDiff(TColumn(t, "time_delta_sec"))
        q  == AccelerationQuotients(t)
        acceleration_x == Where(dt, q.x)
        acceleration_y == Where(dt, q.y)
    IN WithColumns(t, [acceleration_x |-> acceleration_x,
                       acceleration_y |-> acceleration_y,
                       acceleration_magnitude |->
                           VHypotCol(acceleration_x, acceleration_y)])

compute_distance_traveled(t) ==
    LET segment_distance == VHypotCol(VDiff(TColumn(t, "x")), VDiff(TColumn(t, "y")))
    IN WithColumns(t, [segment_distance    |-> segment_distance,
                       cumulative_distance |-> VCumsum(FillNa0(segment_distance))])

\* ---- aggregates of a column, NaN skipped as pandas skips it
Present(col) == {i \in 1..Len(col) : col[i].k # "nan"}

VMax(col) ==
    IF Present(col) = {} THEN FNaN
    ELSE col[CHOOSE i \in Present(col) : \A j \in Present(col) : VLe(col[j], col[i])]

VMin(col) ==
    IF Present(col) = {} THEN FNaN
    ELSE col[CHOOSE i \in Present(col) : \A j \in Present(col) : VLe(col[i], col[j])]

VSum(col) ==
    LET kept == SelectSeq(col, LAMBDA a : a.k # "nan")
    IN IF kept = <<>> THEN F(0) ELSE VCumsum(kept)[Len(kept)]

VMean(col) ==
    IF Present(col) = {} THEN FNaN
    ELSE VDiv(VSum(col), F(Cardinality(Present(col))))

\* the values of col in ascending order
RECURSIVE SortedFrom(_, _)
SortedFrom(col, left) ==
    IF left = {} THEN <<>>
    ELSE LET i == CHOOSE m \in left : \A j \in left : VLe(col[m], col[j])
         IN <<col[i]>> \o SortedFrom(col, left \ {i})

VMedian(col) ==
    LET s == SortedFrom(col, Present(col))
        n == Len(s)
    IN IF n = 0 THEN FNaN
       ELSE IF n % 2 = 1 THEN s[(n + 1) \div 2]
       ELSE VDiv(VAdd(s[n \div 2], s[n \div 2 + 1]), F(2))

\* Series.std(): the square root of the sample variance, NaN under 2 values
VStd(col) ==
    LET n  == Cardinality(Present(col))
        sq == [i \in 1..Len(col) |->
                  IF IsNum(col[i]) THEN Rat(col[i].v * col[i].v, col[i].d * col[i].d)
                  ELSE FNaN]
        s1 == VSum(col)
        s2 == VSum(sq)
        var == Rat(n * s2.v * s1.d * s1.d - s1.v * s1.v * s2.d,
                   s2.d * s1.d * s1.d * n * (n - 1))
    IN IF n < 2 THEN FNaN
       ELSE IF IsSquare(var.v) /\ IsSquare(var.d) THEN Rat(ISqrt(var.v), ISqrt(var.d))
       ELSE [k |-> "sqrt", v |-> var.v, d |-> var.d]

\* session_statistics: the dict, as a function from its keys
StatsOfColumns(t, keys) ==
    [key \in keys |->
        CASE key = "total_events"      -> F(Len(t.rows))
          [] key = "duration_sec"      ->
                 IF "time_delta_sec" \in t.cols
                 THEN VMax(TColumn(t, "time_delta_sec")) ELSE F(0)
          [] key = "x_range"           -> <<VMin(TColumn(t, "x")), VMax(TColumn(t, "x"))>>
          [] key = "y_range"           -> <<VMin(TColumn(t, "y")), VMax(TColumn(t, "y"))>>
          [] key = "x_mean"            -> VMean(TColumn(t, "x"))
          [] key = "y_mean"            -> VMean(TColumn(t, "y"))
          [] key = "mean_speed"        -> VMean(TColumn(t, "speed"))
          [] key = "max_speed"         -> VMax(TColumn(t, "speed"))
          [] key = "median_speed"      -> VMedian(TColumn(t, "speed"))
          [] key = "mean_acceleration" -> VMean(TColumn(t, "acceleration_magnitude"))
          [] key = "max_acceleration"  -> VMax(TColumn(t, "acceleration_magnitude"))
          [] key = "total_distance"    -> VMax(TColumn(t, "cumulative_distance"))]

session_statistics(t) ==
    IF t.rows = <<>> THEN StatsOfColumns(t, {})
    ELSE StatsOfColumns(t,
            {"total_events", "duration_sec"}
            \cup (IF {"x", "y"} \subseteq t.cols
                  THEN {"x_range", "y_range", "x_mean", "y_mean"} ELSE {})
            \cup (IF "speed" \in t.cols
                  THEN {"mean_speed", "max_speed", "median_speed"} ELSE {})
            \cup (IF "acceleration_magnitude" \in t.cols
                  THEN {"mean_acceleration", "max_acceleration"} ELSE {})
            \cup (IF "cumulative_distance" \in t.cols THEN {"total_distance"} ELSE {}))

\* ---- time_binned_statistics with its default arguments
bin_size_sec == 1
stat_cols    == <<"speed", "acceleration_magnitude">>

\* len(np.arange(0, max_time + bin_size_sec, bin_size_sec)): the edges are
\* 0, 1, 2, ... below max_time + 1
NumEdges(max_time) ==
    LET n == max_time.v + bin_size_sec * max_time.d
    IN IF n <= 0 THEN 0 ELSE (n + max_time.d - 1) \div max_time.d

\* pd.cut(t, bins, labels=bins[:-1], include_lowest=True) of one value: the
\* label of the bin (e, e + 1] that holds t, the first bin holding 0 as well;
\* NaN outside the bins
TimeBin(t, edges) ==
    IF ~IsNum(t) THEN FNaN
    ELSE LET below == Cardinality({e \in 0..(edges - 1) : VLt(F(e), t)})
             ids   == IF t = F(0) THEN 1 ELSE below
         IN IF ids = 0 \/ ids = edges THEN FNaN ELSE F(ids - 1)

TimeBinColumn(t) ==
    LET time  == TColumn(t, "time_delta_sec")
        edges == NumEdges(VMax(time))
    IN [i \in 1..Len(time) |-> TimeBin(time[i], edges)]

\* df.groupby('time_bin')[col].agg(['mean', 'std', 'min', 'max', 'count']) for
\* the bin labelled b: time_bin is categorical and every label is a group
BinAggregates(t, b, col) ==
    LET vals == TColumn(SelectRows(t, {t.rows[i].index : i \in
                            {j \in 1..Len(t.rows) : t.rows[j].time_bin = F(b)}}), col)
    IN (col \o "_mean")  :> VMean(vals)
    @@ (col \o "_std")   :> VStd(vals)
    @@ (col \o "_min")   :> VMin(vals)
    @@ (col \o "_max")   :> VMax(vals)
    @@ (col \o "_count") :> F(Cardinality(Present(vals)))

RECURSIVE BinRow(_, _, _)
BinRow(t, b, cs) ==
    IF cs = <<>> THEN ("time_bin" :> F(b)) @@ ("index" :> b)
    ELSE BinAggregates(t, b, Head(cs)) @@ BinRow(t, b, Tail(cs))

EmptyTable == [cols |-> {}, rows |-> <<>>]

BinnedTableObservedOnly(t) ==
    LET cs     == SelectSeq(stat_cols, LAMBDA c : c \in t.cols)
        labels == NumEdges(VMax(TColumn(t, "time_delta_sec"))) - 1
    IN IF cs = <<>> THEN EmptyTable
       ELSE [cols |-> {"time_bin"} \cup UNION {DOMAIN BinAggregates(t, 0, cs[i]) :
                                               i \in 1..Len(cs)},
             rows |-> SelectSeq([b \in 1..labels |-> BinRow(t, b - 1, cs)],
                                LAMBDA r : \E i \in 1..Len(t.rows) :
                                               t.rows[i].time_bin = r.time_bin)]

\* the table time_binned_statistics returns for t, which holds time_bin.
\* time_bin is categorical, and groupby on a categorical column makes a group
\* of every category, the ones without a row included (observed=False, the
\* default of pandas before 3.0).
BinnedTable(t) ==
    LET cs     == SelectSeq(stat_cols, LAMBDA c : c \in t.cols)
        labels == NumEdges(VMax(TColumn(t, "time_delta_sec"))) - 1
    IN IF cs = <<>> THEN EmptyTable
       ELSE [cols |-> {"time_bin"} \cup UNION {DOMAIN BinAggregates(t, 0, cs[i]) :
                                               i \in 1..Len(cs)},
             rows |-> [b \in 1..labels |-> BinRow(t, b - 1, cs)]]

\* ---- the sessions of SpecMetrics
RawRow(event_type, timestamp_local, x, y) ==
    [event_type |-> event_type, timestamp_local |-> timestamp_local,
     x |-> x, y |-> y]

\* Rows of a session file: pointer samples at (0, 0) and (12, 16) with
\* timestamps 0, 1 and 2 (so that a time delta can be positive, zero or
\* negative), a pointer sample without x, a pointer sample whose timestamp
\* did not parse, and a key event, which has no position.
SampleKinds ==
    {RawRow("mouseMoved", F(0), F(0), F(0)),
     RawRow("mouseMoved", F(1), F(12), F(16)),
     RawRow("mouseMoved", F(1), F(0), F(0)),
     RawRow("leftMouseDragged", F(2), F(12), F(16)),
     RawRow("mouseMoved", F(1), FNaN, F(16)),
     RawRow("mouseMoved", FNaN, F(12), F(16)),
     RawRow("keyDown", F(0), FNaN, FNaN)}

\* the tables of the sessions that load: a file whose rows all lack a
\* timestamp does not
Sessions ==
    {s[1].df : s \in {SessionData(CsvFile("session", CsvColumns, raw)) :
                          raw \in SeqsUpTo(SampleKinds, MaxSamples)} \ {<<>>}}

InitMetrics ==
    /\ session_df \in Sessions
    /\ mpc = "call"
    /\ metrics_df = EmptyTable
    /\ quot = <<>>
    /\ stats = <<>>
    /\ binned = <<>>
    /\ MainIdle
    /\ RevIdle
    /\ GazeIdle
    /\ BatchIdle
    /\ WatcherIdle
    /\ HarmonyIdle

\* compute_all_metrics(session_data, 'pointer') up to its calls: the pointer
\* events are copied out of the session (KeyError without an event_type
\* column); an empty table is returned as it is; dropna raises KeyError when
\* the table lacks x, y or time_delta_sec; a table left with fewer than 2
\* rows is returned as it is
ComputeAllMetricsCall ==
    /\ mpc = "call"
    /\ LET events_df == IF "event_type" \in session_df.cols
                        THEN GetPointerEvents(session_df) ELSE session_df
       IN IF "event_type" \notin session_df.cols
          THEN metrics_df' = events_df /\ mpc' = "raised"
          ELSE IF events_df.rows = <<>>
          THEN metrics_df' = events_df /\ mpc' = "returned"
          ELSE IF ~({"x", "y", "time_delta_sec"} \subseteq events_df.cols)
          THEN metrics_df' = events_df /\ mpc' = "raised"
          ELSE LET dropped == DropNa(events_df, {"x", "y", "time_delta_sec"})
               IN /\ metrics_df' = dropped
                  /\ mpc' = IF Len(dropped.rows) < 2 THEN "returned" ELSE "velocity"
    /\ UNCHANGED <<session_df, quot, stats, binned, mainVars, revVars, gazeVars, batchVars, watcherVars, harmonyVars>>

\* df = compute_velocity(df, x_col, y_col)
ComputeVelocityCall ==
    /\ mpc = "velocity"
    /\ quot' = VelocityQuotients(metrics_df)
    /\ metrics_df' = compute_velocity(metrics_df)
    /\ mpc' = "acceleration"
    /\ UNCHANGED <<session_df, stats, binned, mainVars, revVars, gazeVars, batchVars, watcherVars, harmonyVars>>

\* df = compute_acceleration(df)
ComputeAccelerationCall ==
    /\ mpc = "acceleration"
    /\ quot' = AccelerationQuotients(metrics_df)
    /\ metrics_df' = compute_acceleration(metrics_df)
    /\ mpc' = "distance"
    /\ UNCHANGED <<session_df, stats, binned, mainVars, revVars, gazeVars, batchVars, watcherVars, harmonyVars>>

\* df = compute_distance_traveled(df, x_col, y_col); return df
ComputeDistanceCall ==
    /\ mpc = "distance"
    /\ metrics_df' = compute_distance_traveled(metrics_df)
    /\ mpc' = "returned"
    /\ UNCHANGED <<session_df, quot, stats, binned, mainVars, revVars, gazeVars, batchVars, watcherVars, harmonyVars>>

\* stats = session_statistics(df) on the table compute_all_metrics returned
SessionStatisticsCall ==
    /\ mpc = "returned"
    /\ stats' = session_statistics(metrics_df)
    /\ mpc' = "summarised"
    /\ UNCHANGED <<session_df, metrics_df, quot, binned, mainVars, revVars, gazeVars, batchVars, watcherVars, harmonyVars>>

\* time_binned_statistics(df) on the same table.  The function assigns
\* df['time_bin'] on its argument, which is the caller's table, before it
\* aggregates.  A table whose latest time is below -1 gives no bin edge and
\* pd.cut raises on bins[0].
TimeBinnedStatisticsCall ==
    /\ mpc = "summarised"
    /\ IF metrics_df.rows = <<>> \/ "time_delta_sec" \notin metrics_df.cols
       THEN binned' = EmptyTable /\ mpc' = "binned" /\ UNCHANGED metrics_df
       ELSE IF NumEdges(VMax(TColumn(metrics_df, "time_delta_sec"))) = 0
       THEN mpc' = "cut_raised" /\ UNCHANGED <<metrics_df, binned>>
       ELSE /\ metrics_df' = WithColumns(metrics_df,
                                 [time_bin |-> TimeBinColumn(metrics_df)])
            /\ binned' = BinnedTable(metrics_df')
            /\ mpc' = "binned"
    /\ UNCHANGED <<session_df, quot, stats, mainVars, revVars, gazeVars, batchVars, watcherVars, harmonyVars>>

NextMetrics ==
    \/ ComputeAllMetricsCall
    \/ ComputeVelocityCall
    \/ ComputeAccelerationCall
    \/ ComputeDistanceCall
    \/ SessionStatisticsCall
    \/ TimeBinnedStatisticsCall

SpecMetrics == InitMetrics /\ [][NextMetrics]_vars

\* =========================================================================
\* SpecBatch: process_all_sessions.py main, and compare_sessions
\* =========================================================================
\* compute_all_metrics(session_data, 'pointer') as a function of the
\* session's table: <<>> when it raises, <<t>> when it returns t
compute_all_metrics(t) ==
    IF "event_type" \notin t.cols THEN <<>>
    ELSE LET events_df == GetPointerEvents(t)
         IN IF events_df.rows = <<>> THEN <<events_df>>
            ELSE IF ~({"x", "y", "time_delta_sec"} \subseteq events_df.cols) THEN <<>>
            ELSE LET dropped == DropNa(events_df, {"x", "y", "time_delta_sec"})
                 IN IF Len(dropped.rows) < 2 THEN <<dropped>>
                    ELSE <<compute_distance_traveled(
                               compute_acceleration(compute_velocity(dropped)))>>

\* process_session(session, output_dir): raised tells whether an exception
\* left the function; value is <<>> for None and <<stats>> for the dict.
\* The output directory is taken to be writable; an error of the plots is
\* caught inside the function.
process_session(session) ==
    LET m == compute_all_metrics(session.df)
    IN IF m = <<>> THEN [raised |-> TRUE, value |-> <<>>]
       ELSE IF m[1].rows = <<>> THEN [raised |-> FALSE, value |-> <<>>]
       ELSE [raised |-> FALSE, value |-> <<session_statistics(m[1])>>]

\* the rows of DataFrame.sort_values('start_time'): ascending, rows without
\* a start time last, equal times in their former order
RECURSIVE SortByStartTime(_, _)
SortByStartTime(rows, left) ==
    IF left = {} THEN <<>>
    ELSE LET timed == {i \in left : "start_time" \in DOMAIN rows[i]
                                    /\ IsNum(rows[i].start_time)}
             first == IF timed = {}
                      THEN CHOOSE i \in left : \A j \in left : i <= j
                      ELSE CHOOSE i \in timed : \A j \in timed :
                               \/ VLt(rows[i].start_time, rows[j].start_time)
                               \/ (rows[i].start_time = rows[j].start_time /\ i <= j)
         IN <<rows[first]>> \o SortByStartTime(rows, left \ {first})

\* generate_summary_report: <<>> when nothing is written (no stats at all),
\* else <<rows>>, the rows of summary_all_sessions.csv; they are sorted when
\* the table has a start_time column
generate_summary_report(all) ==
    IF all = <<>> THEN <<>>
    ELSE IF \E i \in 1..Len(all) : "start_time" \in DOMAIN all[i]
    THEN <<SortByStartTime(all, 1..Len(all))>>
    ELSE <<all>>

RECURSIVE CompareRows(_)
CompareRows(ss) ==
    IF ss = <<>> THEN <<>>
    ELSE LET m == compute_all_metrics(Head(ss).df)
         IN <<session_statistics(m[1])
              @@ [session_id |-> Head(ss).session_id,
                  start_time |-> Head(ss).start_time]>> \o CompareRows(Tail(ss))

\* compare_sessions(sessions): <<>> when compute_all_metrics raises for one
\* of them, else <<rows>>, one row per session in the order of the argument
compare_sessions(ss) ==
    IF \E i \in 1..Len(ss) : compute_all_metrics(ss[i].df) = <<>> THEN <<>>
    ELSE <<CompareRows(ss)>>

\* The contents a session file can have: two pointer samples starting at
\* time 0; two starting at time 1; a header without rows; a header without
\* the timestamp_local column; a header without the x column; key events
\* only.
FileContents ==
    {[cols |-> CsvColumns,
      raw  |-> <<RawRow("mouseMoved", F(0), F(0), F(0)),
                 RawRow("mouseMoved", F(1), F(12), F(16))>>],
     [cols |-> CsvColumns,
      raw  |-> <<RawRow("mouseMoved", F(1), F(0), F(0)),
                 RawRow("leftMouseDragged", F(2), F(12), F(16))>>],
     [cols |-> CsvColumns, raw |-> <<>>],
     [cols |-> CsvColumns \ {"timestamp_local"},
      raw  |-> <<RawRow("mouseMoved", F(0), F(0), F(0))>>],
     [cols |-> CsvColumns \ {"x"},
      raw  |-> <<RawRow("mouseMoved", F(2), F(0), F(0)),
                 RawRow("mouseMoved", F(2), F(0), F(16))>>],
     [cols |-> CsvColumns,
      raw  |-> <<RawRow("keyDown", F(0), FNaN, FNaN)>>]}

\* sorted(directory.glob(pattern)): the files in the order of their names;
\* the name of a file is its position in that order
Directories ==
    {[i \in 1..Len(cs) |-> CsvFile(i, cs[i].cols, cs[i].raw)] :
        cs \in SeqsUpTo(FileContents, MaxFiles)}

InitBatch ==
    /\ csv_files \in Directories
    /\ bpc = "loading"
    /\ fi = 1
    /\ sessions = <<>>
    /\ load_errors = <<>>
    /\ si = 1
    /\ all_stats = <<>>
    /\ report = <<>>
    /\ comparison = <<>>
    /\ MainIdle
    /\ RevIdle
    /\ GazeIdle
    /\ MetricsIdle
    /\ WatcherIdle
    /\ HarmonyIdle

\* one iteration of load_sessions_from_directory's loop: a constructor that
\* raises is reported and the file skipped; a session without rows is left
\* out
LoadSession ==
    /\ bpc = "loading"
    /\ fi <= Len(csv_files)
    /\ LET s == SessionData(csv_files[fi])
       IN /\ sessions' = IF s # <<>> /\ Len(s[1].df.rows) > 0
                         THEN Append(sessions, s[1]) ELSE sessions
          /\ load_errors' = IF s = <<>> THEN Append(load_errors, csv_files[fi].stem)
                            ELSE load_errors
    /\ fi' = fi + 1
    /\ UNCHANGED <<csv_files, bpc, si, all_stats, report, comparison,
                   mainVars, revVars, gazeVars, metricsVars, watcherVars, harmonyVars>>

\* load_sessions_from_directory returns
LoadReturn ==
    /\ bpc = "loading"
    /\ fi > Len(csv_files)
    /\ bpc' = "loaded"
    /\ UNCHANGED <<csv_files, fi, sessions, load_errors, si, all_stats, report,
                   comparison, mainVars, revVars, gazeVars, metricsVars, watcherVars, harmonyVars>>

\* main: `if not sessions: return`
MainNoSessions ==
    /\ bpc = "loaded"
    /\ sessions = <<>>
    /\ bpc' = "done"
    /\ UNCHANGED <<csv_files, fi, sessions, load_errors, si, all_stats, report,
                   comparison, mainVars, revVars, gazeVars, metricsVars, watcherVars, harmonyVars>>

\* one iteration of main's `for i, session in enumerate(sessions, 1)`: the
\* call of process_session is not guarded, so an exception that leaves it
\* ends main
ProcessSessionCall ==
    /\ bpc \in {"loaded", "processing"}
    /\ si <= Len(sessions)
    /\ LET out == process_session(sessions[si])
       IN IF out.raised
          THEN bpc' = "aborted" /\ UNCHANGED <<si, all_stats>>
          ELSE /\ bpc' = "processing"
               /\ si' = si + 1
               /\ all_stats' = IF out.value # <<>> THEN Append(all_stats, out.value[1])
                               ELSE all_stats
    /\ UNCHANGED <<csv_files, fi, sessions, load_errors, report, comparison,
                   mainVars, revVars, gazeVars, metricsVars, watcherVars, harmonyVars>>

\* main after the loop: generate_summary_report(all_stats, output_dir)
GenerateSummaryReport ==
    /\ bpc = "processing"
    /\ si > Len(sessions)
    /\ report' = generate_summary_report(all_stats)
    /\ bpc' = "done"
    /\ UNCHANGED <<csv_files, fi, sessions, load_errors, si, all_stats, comparison,
                   mainVars, revVars, gazeVars, metricsVars, watcherVars, harmonyVars>>

\* compare_sessions(sessions) on the loaded sessions
CompareSessionsCall ==
    /\ bpc = "loaded"
    /\ comparison' = compare_sessions(sessions)
    /\ bpc' = IF comparison' = <<>> THEN "compare_raised" ELSE "compared"
    /\ UNCHANGED <<csv_files, fi, sessions, load_errors, si, all_stats, report,
                   mainVars, revVars, gazeVars, metricsVars, watcherVars, harmonyVars>>

NextBatch ==
    \/ LoadSession
    \/ LoadReturn
    \/ MainNoSessions
    \/ ProcessSessionCall
    \/ GenerateSummaryReport
    \/ CompareSessionsCall

SpecBatch == InitBatch /\ [][NextBatch]_vars

\* =========================================================================
\* SpecWatcher: watch_and_process.py SessionWatcher
\* =========================================================================
\* The session directory is a function from the file names to the contents
\* of the file of that name, <<>> for a name without a file.
FileNames == 1..MaxNames

Absent == <<>>

\* The contents a watched file can have: of FileContents, one file that is
\* processed to the end, the header without rows, the one whose loading
\* raises and the one whose metrics raise.
WatchedContents ==
    {c \in FileContents :
        \A k \in 1..Len(c.raw) : c.raw[k].event_type = "mouseMoved"
                                  /\ IsNum(c.raw[k].x)}

GlobSessionFiles(dir) == {n \in FileNames : dir[n] # Absent}

\* process_new_session with its `except Exception` taken away: a failure of
\* the loading or of the metrics leaves the function
process_new_session_uncaught(n, content) ==
    IF content = Absent THEN [raised |-> TRUE, outcome |-> "error"]
    ELSE LET s == SessionData(CsvFile(n, content.cols, content.raw))
         IN IF s = <<>> THEN [raised |-> TRUE, outcome |-> "error"]
            ELSE IF Len(s[1].df.rows) = 0
            THEN [raised |-> FALSE, outcome |-> "no_events"]
            ELSE LET m == compute_all_metrics(s[1].df)
                 IN IF m = <<>> THEN [raised |-> TRUE, outcome |-> "error"]
                    ELSE IF m[1].rows = <<>>
                    THEN [raised |-> FALSE, outcome |-> "no_pointer_events"]
                    ELSE [raised |-> FALSE, outcome |-> "complete"]

\* process_new_session(csv_path) on the file the path names at the moment of
\* the call. Everything from load_session to the end is inside
\* `try ... except Exception`, so no exception leaves the function: raised
\* is FALSE, and outcome tells which of its ends was taken.
process_new_session(n, content) ==
    IF content = Absent THEN [raised |-> FALSE, outcome |-> "error"]
    ELSE LET s == SessionData(CsvFile(n, content.cols, content.raw))
         IN IF s = <<>> THEN [raised |-> FALSE, outcome |-> "error"]
            ELSE IF Len(s[1].df.rows) = 0
            THEN [raised |-> FALSE, outcome |-> "no_events"]
            ELSE LET m == compute_all_metrics(s[1].df)
                 IN IF m = <<>> THEN [raised |-> FALSE, outcome |-> "error"]
                    ELSE IF m[1].rows = <<>>
                    THEN [raised |-> FALSE, outcome |-> "no_pointer_events"]
                    ELSE [raised |-> FALSE, outcome |-> "complete"]

\* check_for_new_files taking every file present as new
NewFilesAll(cur, seen) == cur

\* check_for_new_files: new_files = current_files - self.processed_files
NewFiles(cur, seen) == cur \ seen

InitWatcher ==
    /\ directory \in [FileNames -> WatchedContents \cup {Absent}]
    /\ wpc = "constructing"
    /\ existing = {}
    /\ processed_files = {}
    /\ current_files = {}
    /\ new_files = {}
    /\ calls = <<>>
    /\ MainIdle
    /\ RevIdle
    /\ GazeIdle
    /\ MetricsIdle
    /\ BatchIdle
    /\ HarmonyIdle

\* __init__ and _load_existing_files: the names present are remembered
LoadExistingFiles ==
    /\ wpc = "constructing"
    /\ existing' = GlobSessionFiles(directory)
    /\ processed_files' = GlobSessionFiles(directory)
    /\ wpc' = "sleeping"
    /\ UNCHANGED <<directory, current_files, new_files, calls,
                   mainVars, revVars, gazeVars, metricsVars, batchVars, harmonyVars>>

\* check_for_new_files up to its loop: the names present now, less the
\* processed ones
CheckForNewFiles ==
    /\ wpc = "sleeping"
    /\ current_files' = GlobSessionFiles(directory)
    /\ new_files' = NewFiles(current_files', processed_files)
    /\ wpc' = "iterating"
    /\ UNCHANGED <<directory, existing, processed_files, calls,
                   mainVars, revVars, gazeVars, metricsVars, batchVars, harmonyVars>>

\* one iteration of `for filename in new_files` (a set, so in any order):
\* process_new_session, then self.processed_files.add(filename); an
\* exception that left process_new_session would end the poll and run
ProcessNewSession ==
    /\ wpc = "iterating"
    /\ \E filename \in new_files :
         LET out == process_new_session(filename, directory[filename])
         IN /\ calls' = Append(calls, [name |-> filename, outcome |-> out.outcome])
            /\ IF out.raised
               THEN wpc' = "crashed" /\ UNCHANGED <<processed_files, new_files>>
               ELSE /\ processed_files' = processed_files \cup {filename}
                    /\ new_files' = new_files \ {filename}
                    /\ wpc' = wpc
    /\ UNCHANGED <<directory, existing, current_files,
                   mainVars, revVars, gazeVars, metricsVars, batchVars, harmonyVars>>

\* the loop of check_for_new_files is over; run sleeps until the next poll
PollReturn ==
    /\ wpc = "iterating"
    /\ new_files = {}
    /\ wpc' = "sleeping"
    /\ UNCHANGED <<directory, existing, processed_files, current_files, new_files,
                   calls, mainVars, revVars, gazeVars, metricsVars, batchVars, harmonyVars>>

\* the recorder writes a session file into the directory, at any moment
FileAppears ==
    /\ \E n \in FileNames, c \in WatchedContents :
         /\ directory[n] = Absent
         /\ directory' = [directory EXCEPT ![n] = c]
    /\ UNCHANGED <<wpc, existing, processed_files, current_files, new_files, calls,
                   mainVars, revVars, gazeVars, metricsVars, batchVars, harmonyVars>>

\* a session file is deleted, at any moment
FileRemoved ==
    /\ \E n \in FileNames :
         /\ directory[n] # Absent
         /\ directory' = [directory EXCEPT ![n] = Absent]
    /\ UNCHANGED <<wpc, existing, processed_files, current_files, new_files, calls,
                   mainVars, revVars, gazeVars, metricsVars, batchVars, harmonyVars>>

NextWatcher ==
    \/ LoadExistingFiles
    \/ CheckForNewFiles
    \/ ProcessNewSession
    \/ PollReturn
    \/ FileAppears
    \/ FileRemoved

SpecWatcher == InitWatcher /\ [][NextWatcher]_vars

\* =========================================================================
\* SpecHarmony: harmony_lab.py, the capture loop of run_harmony_session
\* =========================================================================
\* The types the page's listeners record; t of an event is the moment of
\* its recording, counted in events.
RecordedTypes == {"down", "up", "move"}

None == <<>>

\* Whether the text of a script has a `return` statement of its own.
\* JS_INIT_LISTENERS, JS_POP_EVENTS and JS_IS_DONE are each one statement,
\* the call of a function expression; the `return` statements they contain
\* belong to that inner function.
HasTopLevelReturn(script) == FALSE

\* driver.execute_script(script): WebDriver runs the text as the body of a
\* function and hands back what that function returns; v is the value of
\* the inner call. Without a `return` of its own the body returns
\* undefined, which reaches Python as None.
execute_script(script, v) == IF HasTopLevelReturn(script) THEN <<v>> ELSE None

InitHarmony ==
    /\ window_open = TRUE
    /\ harmonyLabEvents = <<>>
    /\ harmonyLabDone = FALSE
    /\ clock = 0
    /\ recorded = <<>>
    /\ hpc = "title"
    /\ done = FALSE
    /\ raw_events = <<>>
    /\ session_events = <<>>
    /\ MainIdle
    /\ RevIdle
    /\ GazeIdle
    /\ MetricsIdle
    /\ BatchIdle
    /\ WatcherIdle

\* the page's record(type, ev): one event is pushed on the buffer. recorded
\* keeps, for the properties, the events pushed while the done flag was not
\* set.
Record ==
    /\ window_open
    /\ clock < MaxRecorded
    /\ \E type \in RecordedTypes :
         LET ev == [t |-> clock, type |-> type]
         IN /\ harmonyLabEvents' = Append(harmonyLabEvents, ev)
            /\ recorded' = IF harmonyLabDone THEN recorded ELSE Append(recorded, ev)
    /\ clock' = clock + 1
    /\ UNCHANGED <<window_open, harmonyLabDone, hpc, done, raw_events, session_events,
                   mainVars, revVars, gazeVars, metricsVars, batchVars, watcherVars>>

\* the page's keydown listener on Escape
KeydownEscape ==
    /\ window_open
    /\ ~harmonyLabDone
    /\ harmonyLabDone' = TRUE
    /\ UNCHANGED <<window_open, harmonyLabEvents, clock, recorded, hpc, done,
                   raw_events, session_events,
                   mainVars, revVars, gazeVars, metricsVars, batchVars, watcherVars>>

\* the user closes the browser window
WindowClosed ==
    /\ window_open
    /\ window_open' = FALSE
    /\ UNCHANGED <<harmonyLabEvents, harmonyLabDone, clock, recorded, hpc, done,
                   raw_events, session_events,
                   mainVars, revVars, gazeVars, metricsVars, batchVars, watcherVars>>

\* `_ = driver.title`: raises when the window is gone, and the loop ends
ReadTitle ==
    /\ hpc = "title"
    /\ hpc' = IF window_open THEN "is_done" ELSE "returned"
    /\ UNCHANGED <<window_open, harmonyLabEvents, harmonyLabDone, clock, recorded,
                   done, raw_events, session_events,
                   mainVars, revVars, gazeVars, metricsVars, batchVars, watcherVars>>

\* done = bool(driver.execute_script(JS_IS_DONE)), True when it raises
IsDone ==
    /\ hpc = "is_done"
    /\ done' = IF ~window_open THEN TRUE
               ELSE LET r == execute_script("JS_IS_DONE", harmonyLabDone)
                    IN r # None /\ r[1]
    /\ hpc' = "pop"
    /\ UNCHANGED <<window_open, harmonyLabEvents, harmonyLabDone, clock, recorded,
                   raw_events, session_events,
                   mainVars, revVars, gazeVars, metricsVars, batchVars, watcherVars>>

\* raw_events = driver.execute_script(JS_POP_EVENTS) or []: the page swaps
\* its buffer for an empty one in one step; the call raises when the window
\* is gone, and the exception leaves run_harmony_session
PopEvents ==
    /\ hpc = "pop"
    /\ IF ~window_open
       THEN hpc' = "raised" /\ UNCHANGED <<harmonyLabEvents, raw_events>>
       ELSE /\ harmonyLabEvents' = <<>>
            /\ raw_events' = LET r == execute_script("JS_POP_EVENTS", harmonyLabEvents)
                             IN IF r = None THEN <<>> ELSE r[1]
            /\ hpc' = "append"
    /\ UNCHANGED <<window_open, harmonyLabDone, clock, recorded, done, session_events,
                   mainVars, revVars, gazeVars, metricsVars, batchVars, watcherVars>>

\* the rest of the loop body: the popped events are appended, then
\* `if done: ... break`, else sleep(POLL_INTERVAL)
AppendEvents ==
    /\ hpc = "append"
    /\ session_events' = session_events \o raw_events
    /\ raw_events' = <<>>
    /\ hpc' = IF done THEN "returned" ELSE "title"
    /\ UNCHANGED <<window_open, harmonyLabEvents, harmonyLabDone, clock, recorded, done,
                   mainVars, revVars, gazeVars, metricsVars, batchVars, watcherVars>>

NextHarmony ==
    \/ Record
    \/ KeydownEscape
    \/ WindowClosed
    \/ ReadTitle
    \/ IsDone
    \/ PopEvents
    \/ AppendEvents

SpecHarmony == InitHarmony /\ [][NextHarmony]_vars

\* =========================================================================
\* Properties of segment_strokes and main (Spec)
\* =========================================================================
Recognised == {"down", "move", "up"}

\* the machine is drawing just before position i: some earlier `down` has no
\* `up` between it and i
DrawingBefore(i) ==
    \E j \in 1..(i - 1) :
        /\ events[j].type = "down"
        /\ \A k \in (j + 1)..(i - 1) : events[k].type # "up"

\* the stream without its ignored events
KeptEvents ==
    SelectSeq(events, LAMBDA e :
        \/ e.type = "down"
        \/ (e.type \in {"move", "up"} /\ DrawingBefore(e.t)))

Types(s) == [i \in 1..Len(s) |-> s[i].type]

\* C1: when segment_strokes has returned, the strokes concatenated in output
\* order are exactly the input stream without the ignored events (a move or
\* up met while idle, and events of any other type): nothing else is
\* dropped, duplicated or reordered.
C1_SegmentationComplete ==
    pc # "segment" => Concat(strokes) = KeptEvents

\* scenario 4 of the specification: [down, move, move, up, move]
C1_Witness ==
    /\ pc = "done"
    /\ Types(events) = <<"down", "move", "move", "up", "move">>
    /\ strokes = <<SubSeq(events, 1, 4)>>

\* C2 as written: every output stroke other than the last ends with an `up`.
C2_NonLastEndsWithUp ==
    pc # "segment" =>
        \A k \in 1..(Len(strokes) - 1) : Last(strokes[k]).type = "up"

\* C2 amended: every output stroke other than the last either ends with an
\* `up`, or was flushed by a new `down` that arrived while it was still
\* open: that `down` opens the next stroke and is the next down/move/up
\* event of the stream after the stroke's last event.
C2_NonLastEndsWithUpOrFlushed ==
    pc # "segment" =>
        \A k \in 1..(Len(strokes) - 1) :
            \/ Last(strokes[k]).type = "up"
            \/ LET a == Last(strokes[k]).t
                   b == strokes[k + 1][1].t
               IN /\ a < b
                  /\ events[b].type = "down"
                  /\ \A m \in (a + 1)..(b - 1) : events[m].type \notin Recognised

\* a stroke that is not the last one and has no closing `up`
C2_Witness ==
    /\ pc = "done"
    /\ \E k \in 1..(Len(strokes) - 1) :
          /\ Last(strokes[k]).type = "move"
          /\ strokes[k + 1][1].type = "down"

\* C3: a `down` that arrives while the buffer is non-empty appends the old
\* buffer to strokes as it is, opens a new buffer holding only that `down`,
\* and the machine is drawing before and after.
C3_DownFlushesOpenBuffer ==
    [][(/\ pc = "segment"
        /\ idx <= Len(events)
        /\ events[idx].type = "down"
        /\ current # <<>>)
       => (/\ strokes' = Append(strokes, current)
           /\ current' = <<events[idx]>>
           /\ drawing
           /\ drawing')]_vars

\* the state right after such a `down`
C3_Witness ==
    /\ pc = "segment"
    /\ idx > 2
    /\ events[idx - 1].type = "down"
    /\ current = <<events[idx - 1]>>
    /\ strokes # <<>>
    /\ Len(Last(strokes)) >= 2
    /\ Last(Last(strokes)).type = "move"
    /\ Last(Last(strokes)).t < events[idx - 1].t

\* the index of the last `down` of the stream
LastDown == CHOOSE j \in 1..Len(events) :
                /\ events[j].type = "down"
                /\ \A k \in (j + 1)..Len(events) : events[k].type # "down"

\* the stroke left open at the end of the stream, <<>> when there is none
OpenTail ==
    IF DrawingBefore(Len(events) + 1)
    THEN SelectSeq(SubSeq(events, LastDown, Len(events)),
                   LAMBDA e : e.type \in {"down", "move"})
    ELSE <<>>

\* C4: the scan never gets stuck (every stream, matched or not, is scanned to
\* its end and main completes), and at the return a stroke left open by the
\* stream is the final stroke, while a stream that leaves none adds nothing:
\* no stroke is empty and the last stroke, if any, ends with its `up`.
C4_NeverStuckAndTailFlushed ==
    /\ idx <= Len(events) + 1
    /\ pc # "done" => ENABLED Next
    /\ pc # "segment" =>
          /\ \A k \in 1..Len(strokes) : strokes[k] # <<>>
          /\ IF OpenTail # <<>>
             THEN strokes # <<>> /\ Last(strokes) = OpenTail /\ current = OpenTail
             ELSE /\ current = <<>>
                  /\ strokes # <<>> => Last(Last(strokes)).type = "up"

\* an unmatched `up`, then an unmatched `down` whose stroke is returned open
C4_Witness ==
    /\ pc = "done"
    /\ Len(events) >= 3
    /\ events[1].type = "up"
    /\ Last(events).type = "move"
    /\ strokes # <<>>
    /\ Last(strokes) = current
    /\ Len(current) >= 2
    /\ Last(current).type = "move"

\* C8: a result is produced for exactly the strokes of at least 2 events
\* (None for 0 or 1 events, on every prefix of the stream taken as a
\* stroke), main keeps one result per such stroke, in order, and the summary
\* counts exactly those results ("No analyzable strokes." when there is none).
C8_ResultsForStrokesOfTwoOrMore ==
    /\ \A n \in 0..Len(events) :
          (analyze_left_right_reversal(SubSeq(events, 1, n)) = <<>>) <=> (n < 2)
    /\ pc = "analyze" =>
          Len(results) = Cardinality({k \in 1..(sidx - 1) : Len(strokes[k]) >= 2})
    /\ pc = "done" =>
          LET long == SelectSeq(strokes, LAMBDA s : Len(s) >= 2)
          IN /\ Len(results) = Len(long)
             /\ \A k \in 1..Len(long) :
                   <<results[k]>> = analyze_left_right_reversal(long[k])
             /\ (summary = <<>>) <=> (long = <<>>)
             /\ summary # <<>> => summary[1].total = Len(long)

\* a one-event stroke and a longer one: one result, total 1
C8_Witness ==
    /\ pc = "done"
    /\ Len(strokes) = 2
    /\ Len(strokes[1]) = 1
    /\ Len(strokes[2]) >= 2
    /\ Len(results) = 1
    /\ summary # <<>>
    /\ summary[1].total = 1

\* =========================================================================
\* Properties of analyze_left_right_reversal (SpecReversal)
\* =========================================================================
NonNeutral(ds) == SelectSeq(ds, LAMBDA d : d # 0)

\* positions of a sequence whose entry differs from the one before
Changes(s) == Cardinality({i \in 2..Len(s) : s[i] # s[i - 1]})

C5_Final ==
    (rpc = "returned" /\ ret # <<>> /\ NonNeutral(dirs) # <<>>) =>
        /\ ret[1].reversal_count = Changes(NonNeutral(dirs))
        /\ ret[1].has_reversal = (ret[1].reversal_count > 0)

C5_NeutralStep ==
    (rpc = "loop" /\ ri <= Len(dirs) /\ dirs[ri] = 0) =>
        (reversal_count' = reversal_count /\ prev_dir' = prev_dir)

\* C5: for a stroke with a non-neutral dx, reversal_count is the number of
\* positions of the non-neutral classifications (neutral ones removed) that
\* differ from the non-neutral classification before them; an iteration on a
\* neutral entry changes neither the count nor the current direction; and
\* has_reversal is reversal_count > 0.
C5_ReversalCount == []C5_Final /\ [][C5_NeutralStep]_vars

\* the shape of scenario 2: right, left, neutral, left gives one reversal
C5_Witness ==
    /\ rpc = "returned"
    /\ dirs = <<1, -1, 0, -1>>
    /\ ret = <<[has_reversal |-> TRUE, initial_dir |-> 1, reversal_count |-> 1]>>

RECURSIVE FirstNonZero(_)
FirstNonZero(s) ==
    IF s = <<>> THEN 0
    ELSE IF Head(s) # 0 THEN Head(s) ELSE FirstNonZero(Tail(s))

\* C6: initial_dir is the classification of the first non-neutral dx, and a
\* stroke whose dx are all neutral gets initial_dir 0, has_reversal false
\* and reversal_count 0.
C6_InitialDir ==
    (rpc = "returned" /\ Len(stroke) >= 2) =>
        /\ ret # <<>>
        /\ ret[1].initial_dir = FirstNonZero(dirs)
        /\ (\A i \in 1..Len(dirs) : dirs[i] = 0) => ret[1] = NeutralResult

\* a neutral dx first, then left, later right
C6_Witness ==
    /\ rpc = "returned"
    /\ Len(dirs) >= 3
    /\ dirs[1] = 0
    /\ dirs[2] = -1
    /\ dirs[3] = 1
    /\ ret[1].initial_dir = -1

\* C7: dx = x[i+1] - x[i] for consecutive events, classified neutral exactly
\* when |dx| <= 1, right exactly when dx > 1 and left exactly when dx < -1.
C7_Classification ==
    (rpc # "call" /\ Len(stroke) >= 2) =>
        /\ Len(dxs) = Len(stroke) - 1
        /\ Len(dirs) = Len(dxs)
        /\ \A i \in 1..(Len(stroke) - 1) :
              LET dx == stroke[i + 1].x - stroke[i].x
              IN /\ dxs[i] = dx
                 /\ (dirs[i] = 0) <=> (Abs(dx) <= 1)
                 /\ (dirs[i] = 1) <=> (dx > 1)
                 /\ (dirs[i] = -1) <=> (dx < -1)
                 /\ dirs[i] \in {-1, 0, 1}

\* dx = +1 and dx = -1 are neutral, dx = +2 is right, dx = -2 is left
C7_Witness ==
    /\ rpc = "returned"
    /\ dxs = <<1, 2, -1, -2>>
    /\ dirs = <<0, 1, 0, -1>>

\* =========================================================================
\* Properties of _add_derived_metrics (SpecGaze)
\* =========================================================================
\* frame i (position i of the table) is the onset of a blink
RisingEdge(i) ==
    i > 1 /\ metrics_list[i].is_blinking /\ ~metrics_list[i - 1].is_blinking

RunStart(col, i) ==
    CHOOSE a \in 1..i :
        /\ \A k \in a..i : col[k] = col[i]
        /\ a = 1 \/ col[a - 1] # col[i]

RunEnd(col, i) ==
    CHOOSE b \in i..Len(col) :
        /\ \A k \in i..b : col[k] = col[i]
        /\ b = Len(col) \/ col[b + 1] # col[i]

\* C11: a new fixation group starts exactly at the frames whose is_fixation
\* differs from the previous frame's; a frame of a fixation run carries the
\* length of its maximal run as fixation_duration, and a frame that is not a
\* fixation carries 0.
C11_FixationDuration ==
    gpc = "done" =>
        \A i \in 1..Len(df.is_fixation) :
            /\ i > 1 => ((df.fixation_group[i] # df.fixation_group[i - 1])
                         <=> (df.is_fixation[i] # df.is_fixation[i - 1]))
            /\ df.is_fixation[i] = 0 => df.fixation_duration[i] = 0
            /\ df.is_fixation[i] = 1 =>
                   df.fixation_duration[i]
                       = RunEnd(df.is_fixation, i) - RunStart(df.is_fixation, i) + 1

\* a video with two fixation runs of different lengths
C11_Witness ==
    /\ gpc = "done"
    /\ \E i, j \in 1..Len(df.is_fixation) :
          /\ i < j
          /\ df.is_fixation[i] = 1 /\ df.is_fixation[j] = 1
          /\ \E k \in (i + 1)..(j - 1) : df.is_fixation[k] = 0
          /\ df.fixation_duration[i] = 2
          /\ df.fixation_duration[j] = 1

\* C12: no frame is both a saccade and a fixation.
C12_SaccadeFixationExclusive ==
    gpc = "done" =>
        \A i \in 1..Len(df.is_saccade) :
            ~(df.is_saccade[i] = 1 /\ df.is_fixation[i] = 1)

\* a video with a saccade frame and a fixation frame
C12_Witness ==
    /\ gpc = "done"
    /\ \E i, j \in 1..Len(df.is_saccade) :
          /\ df.is_saccade[i] = 1
          /\ df.is_fixation[j] = 1 /\ df.gaze_velocity_sq[j] # <<0>>

\* C13: a frame whose gaze velocity v has 0.002 <= v <= 0.01 (4 <= v*v <= 100
\* in thousandths squared) is neither a saccade nor a fixation; a saccade has
\* v > 0.01 and a fixation v < 0.002.
C13_DeadZone ==
    gpc = "done" =>
        \A i \in 1..Len(df.gaze_velocity_sq) :
            LET v == df.gaze_velocity_sq[i]
            IN /\ (v # <<>> /\ v[1] >= 4 /\ v[1] <= 100)
                      => (df.is_saccade[i] = 0 /\ df.is_fixation[i] = 0)
               /\ df.is_saccade[i] = 1 => (v # <<>> /\ v[1] > 100)
               /\ df.is_fixation[i] = 1 => (v # <<>> /\ v[1] < 4)

\* a video with a frame on each threshold and a frame between them
C13_Witness ==
    /\ gpc = "done"
    /\ \E i, j, k \in 1..Len(df.gaze_velocity_sq) :
          /\ df.gaze_velocity_sq[i] = <<4>>
          /\ df.gaze_velocity_sq[j] = <<100>>
          /\ df.gaze_velocity_sq[k] = <<64>>

\* C14: every emitted frame, the frames without a face included, is blinking
\* exactly when the openness of its left or of its right eye is below 0.2.
C14_BlinkingIffEitherEyeBelow ==
    \A i \in 1..Len(metrics_list) :
        metrics_list[i].is_blinking
            <=> (metrics_list[i].left_eye_openness < 20
                 \/ metrics_list[i].right_eye_openness < 20)

\* =========================================================================
\* Properties of metrics.py (SpecMetrics)
\* =========================================================================
\* compute_all_metrics has computed the kinematic columns
Derived == "acceleration_x" \in metrics_df.cols

\* the time delta of row i of the derived table, i > 1
TimeDelta(i) ==
    VSub(metrics_df.rows[i].time_delta_sec, metrics_df.rows[i - 1].time_delta_sec)

KinematicColumns == {"velocity_x", "velocity_y", "acceleration_x", "acceleration_y"}

\* the four kinematic columns are finite in every row and exactly 0 in every
\* row after the first whose time delta is zero or negative
ZeroAtNonPositiveDt ==
    Derived =>
        \A i \in 1..Len(metrics_df.rows) : \A c \in KinematicColumns :
            /\ IsNum(metrics_df.rows[i][c])
            /\ (i > 1 /\ ~VGt0(TimeDelta(i))) => metrics_df.rows[i][c] = F(0)

RECURSIVE SegmentSum(_)
SegmentSum(i) ==
    IF i <= 1 THEN F(0)
    ELSE VAdd(SegmentSum(i - 1), metrics_df.rows[i].segment_distance)

\* C16: cumulative_distance never decreases along the table, and at every
\* row it is the sum of the segment distances of the rows after the first up
\* to that row; the first row contributes 0.
C16_CumulativeDistance ==
    "cumulative_distance" \in metrics_df.cols =>
        \A i \in 1..Len(metrics_df.rows) :
            /\ metrics_df.rows[i].cumulative_distance = SegmentSum(i)
            /\ i = 1 => metrics_df.rows[i].cumulative_distance = F(0)
            /\ i > 1 => VLe(metrics_df.rows[i - 1].cumulative_distance,
                            metrics_df.rows[i].cumulative_distance)

\* a table whose distance grows twice and stays once
C16_Witness ==
    /\ mpc = "returned"
    /\ "cumulative_distance" \in metrics_df.cols
    /\ Len(metrics_df.rows) = 4
    /\ metrics_df.rows[2].cumulative_distance = F(20)
    /\ metrics_df.rows[3].cumulative_distance = F(20)
    /\ metrics_df.rows[4].cumulative_distance = F(40)

\* the pointer samples of the session, and those with x, y and time present
PointerSamples ==
    {i \in 1..Len(session_df.rows) : session_df.rows[i].event_type \in pointer_types}

UsableSamples ==
    {i \in PointerSamples :
        /\ "time_delta_sec" \in session_df.cols
        /\ \A c \in {"x", "y", "time_delta_sec"} : session_df.rows[i][c].k # "nan"}

Returned == mpc \in {"returned", "summarised", "binned", "cut_raised"}

\* C17: the derived table has exactly one row per input sample, also when
\* samples have a missing x, y or timestamp.
C17_OneRowPerSample ==
    Returned => Len(metrics_df.rows) = Cardinality(PointerSamples)

\* row i > 1 of the derived table follows a gap: the series has a sample
\* with a missing value between row i - 1 and row i
AfterGap(i) ==
    \E j \in PointerSamples :
        /\ metrics_df.rows[i - 1].index < session_df.rows[j].index
        /\ session_df.rows[j].index < metrics_df.rows[i].index

\* C18: the first valid sample after a gap does not carry the finite
\* difference between itself and the last valid sample before the gap: where
\* it moved and time advanced across the gap, its velocity and segment
\* distance are not that displacement over that time.
C18_GapBreaksChain ==
    (Returned /\ Derived) =>
        \A i \in 2..Len(metrics_df.rows) :
            LET dx == VSub(metrics_df.rows[i].x, metrics_df.rows[i - 1].x)
                dy == VSub(metrics_df.rows[i].y, metrics_df.rows[i - 1].y)
            IN (AfterGap(i) /\ VGt0(TimeDelta(i)) /\ dx # F(0)) =>
                   ~(/\ metrics_df.rows[i].velocity_x = VDiv(dx, TimeDelta(i))
                     /\ metrics_df.rows[i].velocity_y = VDiv(dy, TimeDelta(i))
                     /\ metrics_df.rows[i].segment_distance = VHypot(dx, dy))

\* C19: with fewer than 2 usable samples compute_all_metrics does not raise
\* and returns an empty table, and session_statistics of an empty table is
\* the empty dict.
C19_DegenerateInputEmpty ==
    /\ Cardinality(UsableSamples) < 2 =>
           /\ mpc # "raised"
           /\ Returned => metrics_df.rows = <<>>
    /\ (mpc \in {"summarised", "binned"} /\ metrics_df.rows = <<>>)
           => DOMAIN stats = {}

\* C20: no call changes the table it is given: the session's table stays as
\* loaded, and the table handed to session_statistics and to
\* time_binned_statistics stays as compute_all_metrics returned it.
C20_ArgumentsNotMutated ==
    [][/\ session_df' = session_df
       /\ mpc \in {"returned", "summarised"} => metrics_df' = metrics_df]_vars

\* =========================================================================
\* Invariants of the scan of segment_strokes (Spec)
\* =========================================================================
Downs(s) == Cardinality({i \in 1..Len(s) : s[i].type = "down"})

\* C24: after every handled event, drawing is true exactly when the current
\* buffer is non-empty, and a non-empty buffer starts with a `down`, holds
\* exactly one `down` and no `up`.
C24_BufferInvariant ==
    pc = "segment" =>
        /\ drawing <=> (current # <<>>)
        /\ current # <<>> =>
               /\ current[1].type = "down"
               /\ Downs(current) = 1
               /\ \A i \in 1..Len(current) : current[i].type # "up"

\* the scan in the middle of a stream, drawing, after a stroke was closed
C24_Witness ==
    /\ pc = "segment"
    /\ idx <= Len(events)
    /\ strokes # <<>>
    /\ drawing
    /\ Len(current) >= 2

\* C25: every returned stroke is non-empty, begins with a `down`, holds
\* exactly one `down` and an `up` only as its last event; the number of
\* strokes is the number of `down` events of the stream.
C25_StrokeShape ==
    pc \in {"analyze", "done"} =>
        /\ \A k \in 1..Len(strokes) :
              /\ strokes[k] # <<>>
              /\ strokes[k][1].type = "down"
              /\ Downs(strokes[k]) = 1
              /\ \A i \in 1..(Len(strokes[k]) - 1) : strokes[k][i].type # "up"
        /\ Len(strokes) = Downs(events)

\* a stream with a stray `up`, a stroke closed by `up`, a stroke flushed by
\* the next `down` and an open tail
C25_Witness ==
    /\ pc = "analyze"
    /\ events # <<>>
    /\ events[1].type = "up"
    /\ Len(strokes) = 3
    /\ Last(strokes[1]).type = "up"
    /\ Last(strokes[2]).type # "up"
    /\ Last(strokes[3]).type # "up"

\* =========================================================================
\* Bounds of the reversal count (SpecReversal)
\* =========================================================================
\* the classifications of the stroke's dx, neutral ones removed
StrokeDirections ==
    NonNeutral([i \in 1..(Len(stroke) - 1) |->
        LET dx == stroke[i + 1].x - stroke[i].x
        IN IF dx > 1 THEN 1 ELSE IF dx < -1 THEN -1 ELSE 0])

\* C26: a stroke with k >= 1 non-neutral classifications gets
\* 0 <= reversal_count <= k - 1 and initial_dir in {-1, 1}, and its last
\* non-neutral classification equals initial_dir exactly when reversal_count
\* is even.
C26_ReversalBounds ==
    (rpc = "returned" /\ Len(stroke) >= 2 /\ StrokeDirections # <<>>) =>
        /\ ret # <<>>
        /\ ret[1].reversal_count >= 0
        /\ ret[1].reversal_count <= Len(StrokeDirections) - 1
        /\ ret[1].initial_dir \in {-1, 1}
        /\ (Last(StrokeDirections) = ret[1].initial_dir)
               <=> (ret[1].reversal_count % 2 = 0)

\* three non-neutral steps that alternate: the count reaches k - 1 = 2
C26_Witness ==
    /\ rpc = "returned"
    /\ Len(StrokeDirections) = 3
    /\ ret # <<>>
    /\ ret[1].reversal_count = 2
    /\ Last(StrokeDirections) = ret[1].initial_dir

\* =========================================================================
\* Frames with an undefined gaze velocity (SpecFixation)
\* =========================================================================
\* frame i has no gaze velocity: it is the first frame, it has no face, or
\* the frame before it has no face
UndefinedVelocity(i) ==
    \/ i = 1
    \/ metrics_list[i].gaze_x = <<>>
    \/ metrics_list[i - 1].gaze_x = <<>>

\* C27: the first frame, every frame without a face and every frame that
\* follows a frame without a face has an undefined gaze velocity, is neither
\* a saccade nor a fixation and has fixation_duration 0; fixation frames on
\* either side of it belong to different fixation groups.
C27_UndefinedVelocity ==
    gpc = "done" =>
        \A i \in 1..Len(metrics_list) :
            /\ UndefinedVelocity(i) <=> (df.gaze_velocity_sq[i] = <<>>)
            /\ UndefinedVelocity(i) =>
                   /\ df.is_saccade[i] = 0
                   /\ df.is_fixation[i] = 0
                   /\ df.fixation_duration[i] = 0
                   /\ \A a \in 1..(i - 1) : \A b \in (i + 1)..Len(metrics_list) :
                          (df.is_fixation[a] = 1 /\ df.is_fixation[b] = 1)
                              => df.fixation_group[a] # df.fixation_group[b]

\* a fixation, a frame without a face, the frame after it, a fixation
C27_Witness ==
    /\ gpc = "done"
    /\ Len(metrics_list) = 5
    /\ df.is_fixation = <<0, 1, 0, 0, 1>>
    /\ metrics_list[3].gaze_x = <<>>
    /\ metrics_list[4].gaze_x # <<>>
    /\ df.fixation_duration = <<0, 1, 0, 0, 1>>

\* =========================================================================
\* The rows of time_binned_statistics (SpecMetrics)
\* =========================================================================
\* the speeds of the samples of bucket b, which holds the times in (b, b + 1]
\* and, for b = 0, time 0 as well
SpeedsOfBucket(b) ==
    SelectSeq(metrics_df.rows, LAMBDA r :
        \/ (VLt(F(b), r.time_delta_sec) /\ VLe(r.time_delta_sec, F(b + 1)))
        \/ (b = 0 /\ r.time_delta_sec = F(0)))

\* the latest sample time, a whole number of seconds in these sessions
MaxSampleTime == VMax(TColumn(metrics_df, "time_delta_sec")).v

Producers ==
    SelectSeq(sessions, LAMBDA s : ~process_session(s).raised
                                   /\ process_session(s).value # <<>>)

NonDecreasingStart(ss) ==
    \A k \in 2..Len(ss) : VLe(ss[k - 1].start_time, ss[k].start_time)

\* C21: the rows returned by compare_sessions, and the rows of the summary
\* report of a batch, are in non-decreasing order of the sessions' start
\* times, in whatever order the sessions were supplied.
C21_SortedByStartTime ==
    /\ bpc = "compared" => NonDecreasingStart(comparison[1])
    /\ (bpc = "done" /\ report # <<>>) =>
          /\ Len(report[1]) = Len(Producers)
          /\ \A k \in 1..Len(report[1]) :
                 report[1][k] = session_statistics(compute_all_metrics(Producers[k].df)[1])
          /\ NonDecreasingStart(Producers)

\* C23: a session that fails while it is loaded or processed is skipped:
\* the batch does not end with it, every session after it is processed, and
\* the summary report is written from the sessions that gave statistics.
C23_FailureIsolated ==
    /\ bpc # "aborted"
    /\ (bpc = "done" /\ sessions # <<>>) =>
          /\ si > Len(sessions)
          /\ (Producers # <<>> => report # <<>>)


\* =========================================================================
\* Properties of SessionWatcher (SpecWatcher)
\* =========================================================================
CallsOf(n) == {k \in 1..Len(calls) : calls[k].name = n}

\* what holds of the calls in every state: no name is handed over twice, no
\* name found at construction is handed over, and when a poll has returned,
\* every name it found in the directory that was not there at construction
\* has been handed over, by it or by an earlier poll
HandedOverOnce ==
    /\ \A n \in FileNames : Cardinality(CallsOf(n)) <= 1
    /\ \A n \in existing : CallsOf(n) = {}
    /\ (wpc = "sleeping" /\ calls # <<>>) =>
          \A n \in current_files \ existing : n \in processed_files /\ CallsOf(n) # {}

\* C28: over any polls and any files coming into the directory, each file
\* name is handed to process_new_session at most once, a file present at
\* construction is never handed over, processed_files only grows, and a file
\* that came after construction and is present at a poll has been processed
\* when that poll returns.
C28_EachNewFileOnce ==
    [](HandedOverOnce) /\ [][processed_files \subseteq processed_files']_vars

\* a poll has returned after handing over a file that came after
\* construction, while a file found at construction is still present
C28_Witness ==
    /\ wpc = "sleeping"
    /\ calls # <<>>
    /\ \E n \in current_files \ existing : CallsOf(n) # {}
    /\ \E n \in existing : n \in current_files /\ directory[n] # Absent

\* C29: an exception raised while a new session file is loaded or processed
\* does not leave process_new_session: the watcher goes on, and the file
\* that failed is in processed_files, so that no later call is made for it.
C29_FailureContained ==
    /\ wpc # "crashed"
    /\ \A k \in 1..Len(calls) :
          calls[k].outcome = "error" =>
             /\ calls[k].name \in processed_files
             /\ CallsOf(calls[k].name) = {k}

\* a call failed and the watcher handed over another file after it, and the
\* failed file is still in the directory when a later poll has returned
C29_Witness ==
    /\ wpc = "sleeping"
    /\ \E k \in 1..Len(calls) :
          /\ calls[k].outcome = "error"
          /\ k < Len(calls)
          /\ directory[calls[k].name] # Absent
          /\ calls[k].name \in current_files


\* =========================================================================
\* Properties of the capture loop (SpecHarmony)
\* =========================================================================
IsPrefix(s, t) == Len(s) <= Len(t) /\ SubSeq(t, 1, Len(s)) = s

\* C30: under any interleaving of the page's recording with the driver's
\* polls, every event the page recorded before Escape set the done flag is
\* once in the session's event list, in the order of its recording: no
\* event is lost or doubled between polls, and a session that ended by
\* Escape holds all of them.
C30_NoEventLostOrDuplicated ==
    /\ ~harmonyLabDone =>
          session_events \o raw_events \o harmonyLabEvents = recorded
    /\ IsPrefix(session_events \o raw_events, recorded \o harmonyLabEvents)
    /\ (hpc = "returned" /\ done /\ window_open) => IsPrefix(recorded, session_events)

====
